---- MODULE Spec2Model ----
(***************************************************************************)
(* Model of the compliant fetch pipeline of the price-compare API:         *)
(*   httpclient.Client.Get      (apps/api/internal/httpclient/client.go)   *)
(*   httpclient.IsExternalURL   (apps/api/internal/httpclient/config.go)   *)
(*   robots.Checker             (compliance/robots/checker.go)             *)
(*   ratelimit.Manager          (apps/api/internal/ratelimit/manager.go)   *)
(*   audit.LogRequest           (apps/api/internal/audit/log.go)           *)
(*                                                                         *)
(* Strings are sequences of symbols: a symbol stands for a run of          *)
(* characters ("admin") or a single separator ("/", ":", " "), so that     *)
(* prefix, suffix, trimming and splitting are computed position by         *)
(* position as the code computes them.                                     *)
(***************************************************************************)
EXTENDS Integers, Sequences, FiniteSets, TLC

VARIABLES
    \* ---- pathMatches on drawn inputs (SpecMatch)
    pmPath,        \* the path
    pmPattern,     \* the pattern
    pmOut,         \* [done, matched]: result of pathMatches once done
    \* ---- group selection on drawn inputs (SpecGroups)
    gsRules,       \* the parsed groups, in file order
    gsPath,        \* the path
    gsAgent,       \* the caller's user agent
    gsOut,         \* [done, allowed, group]: result of checkPath once done
    \* ---- successive CanFetch calls on one Checker (SpecCache)
    ccHasCache,    \* Checker.cache is not nil
    ccMem,         \* Checker.memoryCache
    ccRedis,       \* the persistent cache
    ccNow,         \* time.Now()
    ccFetched,     \* per cache key: [has, at, content] of the last successful network fetch
    ccLast,        \* the last CanFetch call: [called, key, at, prior, requests, err, tier, served]
    \* ---- concurrent callers of Manager.Wait (SpecManager)
    mgPc,          \* per caller: idle, rlock, read, runlock, lock, check, unlock, wait, done
    mgKey,         \* per caller: providerKey
    mgLocal,       \* per caller: the local variable limiter (NoInstance is nil)
    mgReaders,     \* Manager.mu: the callers holding the read lock
    mgWriter,      \* Manager.mu: the caller holding the write lock, or NoProc
    mgLimiters,    \* Manager.limiters: key -> limiter instance, NoInstance when absent
    mgTokens,      \* per limiter instance: tokens left in its bucket
    mgCreated,     \* per key: how many limiters rate.NewLimiter made for it (history)
    \* ---- successive Wait calls on one fresh limiter (SpecBucket)
    tbCfg,         \* RateLimitConfig of the key: [RPS, Burst]
    tbLim,         \* the rate.Limiter of the key: [interval, burst, credit, last]
    tbNow,         \* time.Now(), in ticks of 50 ms
    tbPc,          \* the caller: idle, or sleep inside limiter.Wait
    tbCalls,       \* the Wait calls so far: [issued, due, done, at, err] (history)
    \* ---- workers running processCandidate on one database (SpecProcessor)
    prProducts,    \* table products: rows [title, brand, model, image], the id is the index
    prIdents,      \* table product_identifiers: rows [type, value, product]
    prOffers,      \* table offers: rows [product, source, seller]
    prPc,          \* per worker: idle, ident, title, create, identifier, update,
                   \* delete, fetch, upsert
    prCand,        \* per worker: the candidate and sourceName being processed
    prProduct,     \* per worker: the local variable product (id 0 is nil)
    prFetched,     \* per worker: the sellers of the offers FetchOffers returned
    prCount,       \* candidates taken up so far
    prBatch,       \* the candidates the providers' searches yield in this run
    \* ---- history of the processing (observations, not program state)
    prResolved,    \* [source, identifier, title, product] of the candidates resolved
    prHad,         \* per product: the fields that once held a non-empty value
    prPatched,     \* [field, value]: the candidate value behind every changed column
    prOverlap,     \* per worker: another worker touched the offers of its pair meanwhile
    prLast,        \* the cycle completed last: [done, product, source, identifier,
                   \* returned, stored, overlapped]
    prBefore,      \* per worker: the sellers stored for its pair when its cycle began
    prFailed,      \* the cycle given up last on a failed FetchOffers:
                   \* [done, product, source, before, after, overlapped]
    \* ---- OfferRepository.Upsert on the offers table (SpecOffers)
    ofRows,        \* table offers: rows [id, product, source, seller, url, price]
    ofNextId,      \* the next uuid.New()
    ofCall,        \* the last Upsert: [called, offer, before, returned] (history)
    \* ---- the shipping calculator and the pricing of fetched offers (SpecShipping)
    shCfg,         \* shipping.Config: [Mode, FeePercent, FXUSDJPY]
    shShipUp,      \* the prices at which an exact half cent comes out of the
                   \* floating-point evaluation of CalculateShipping as the upper cent
    shJpyUp,       \* the same for the half yen of ConvertToJPY
    shRow,         \* the offer persisted last: [done, reported, price, shipping, total]
    shJPY,         \* the last ConvertToJPY: [done, cents, jpy]
    \* ---- one fetch_prices job (SpecJob)
    jbPayload,     \* the task payload: [ok, Source]
    jbRegistered,  \* the names registered with the provider manager
    jbSources,     \* the sources the job walks
    jbPc,          \* "start", "source", "query", "backoff", "cand", "done"
    jbSrc,         \* index into jbSources
    jbQ,           \* index into the queries of the current source
    jbReturned,    \* number of candidates the current Search returned
    jbI,           \* loop index into the candidates
    jbCtxDone,     \* the job's context is cancelled
    jbRet,         \* what HandleFetchPrices returned: "", "nil", "error"
    jbSearched,    \* history: Search calls made for the current source
    jbProcessed,   \* history: processCandidate calls of the current loop
    jbFailAt,      \* history: position of the loop's first failed candidate, 0 if none
    jbLast,        \* history: the last finished loop [source, returned, processed, failAt]
    jbRuns,        \* history: the sources walked so far [source, found, searched, err]
    \* ---- robots rule evaluation on drawn inputs (SpecRobots)
    rbRule,        \* the RobotsRule under evaluation
    rbPath,        \* the path under evaluation
    rbOut,         \* [done, allowed, group]: result of checkPathAgainstRule once done
    \* ---- the retry loop's backoff sequence (SpecBackoff)
    boAttempt,     \* attempt index of the next backoff to compute
    boPrev,        \* backoff slept after attempt boAttempt-2 (int64 ns), if boAttempt >= 2
    boCur,         \* backoff slept after attempt boAttempt-1 (int64 ns), if boAttempt >= 1
    \* ---- Client.Get and its collaborators (Spec)
    cfg,           \* Config: [AllowLiveFetch, HTTPMaxRetries, hasCache]
    pc,            \* position of the caller in Get: idle, robots, wait, attempt, backoff, done
    url,           \* targetURL of the call in progress
    key,           \* providerKey of the call in progress
    ctxCancelled,  \* the caller's context is done
    attempt,       \* loop variable of the retry loop
    retryCount,    \* local retryCount
    robotsAllowed, \* local robotsAllowed
    robotsGroup,   \* local robotsGroup
    lastErr,       \* local lastErr ("" is nil)
    backoff,       \* duration of the backoff sleep in progress (int64 ns)
    ret,           \* what Get returned: [done, status, err, cause]
    auditLog,      \* the audit sink: entries in emission order, append-only
    limiters,      \* Manager.limiters: tokens left per key, NoLimiter when absent
    memoryCache,   \* Checker.memoryCache: cache key -> [has, content, expiresAt]
    redisCache,    \* the persistent cache behind Checker.cache, same shape
    now,           \* time.Now() as the robots check reads it
    \* ---- history of the call in progress (observations, not program state)
    auditMark,     \* Len(auditLog) when the call started
    net,           \* [robots, gets, waits, tokens, gate]: network requests for
                   \* robots.txt, GETs sent to the target, Manager.Wait calls,
                   \* tokens taken, CanFetch calls
    outcomes,      \* the attempts of the call: [tries, last, only429]: how many
                   \* httpClient.Do calls, the outcome of the last, whether all got 429
    gate           \* the CanFetch call of this Get: [called, fetchFailed, malformed, allowed, err]

matchVars == <<pmPath, pmPattern, pmOut>>

\* the variables of the models that follow the fetch pipeline in this module
groupVars == <<gsRules, gsPath, gsAgent, gsOut>>

cacheVars == <<ccHasCache, ccMem, ccRedis, ccNow, ccFetched, ccLast>>

mgrVars ==
    <<mgPc, mgKey, mgLocal, mgReaders, mgWriter, mgLimiters, mgTokens, mgCreated>>

bucketVars == <<tbCfg, tbLim, tbNow, tbPc, tbCalls>>

\* the variables of the models added after the manager's
procVars ==
    <<prProducts, prIdents, prOffers, prPc, prCand, prProduct, prFetched, prCount,
      prBatch, prResolved, prHad, prPatched, prOverlap, prLast, prBefore, prFailed>>

offerVars == <<ofRows, ofNextId, ofCall>>

\* the variables of the models that follow processCandidate in this module
shipVars == <<shCfg, shShipUp, shJpyUp, shRow, shJPY>>

jobVars == <<jbPayload, jbRegistered, jbSources, jbPc, jbSrc, jbQ, jbReturned, jbI,
             jbCtxDone, jbRet, jbSearched, jbProcessed, jbFailAt, jbLast, jbRuns>>

lateVars == <<offerVars, shipVars, jobVars>>

restVars == <<bucketVars, procVars, lateVars>>

otherVars == <<matchVars, groupVars, cacheVars, mgrVars, restVars>>

robotsVars == <<rbRule, rbPath, rbOut>>

backoffVars == <<boAttempt, boPrev, boCur>>

clientVars ==
    <<cfg, pc, url, key, ctxCancelled, attempt, retryCount, robotsAllowed,
      robotsGroup, lastErr, backoff, ret, auditLog, limiters, memoryCache,
      redisCache, now, auditMark, net, outcomes, gate>>

pipelineVars == <<robotsVars, backoffVars, clientVars>>

vars == <<pipelineVars, otherVars>>

\* the variables of the models up to processCandidate
earlyVars ==
    <<pipelineVars, matchVars, groupVars, cacheVars, mgrVars, bucketVars, procVars>>

NoOut == [done |-> FALSE, allowed |-> FALSE, group |-> <<>>]

(***************************************************************************)
(* Bounds of the model                                                     *)
(***************************************************************************)
\* longest Allow / Disallow list of a drawn rule
MaxPatterns == 2

\* number of concurrent callers of Manager.Wait
MaxCallers == 3

\* time up to which SpecCache makes CanFetch calls
MaxCacheClock == 3

\* largest number of groups in a drawn robots.txt
MaxGroups == 3

\* longest path and longest pattern SpecMatch draws, in symbols
MaxMatchLen == 4

\* largest attempt index whose backoff SpecBackoff computes
MaxBackoffAttempt == 35

\* largest configured HTTPMaxRetries
MaxRetriesBound == 2

\* latest time at which the call is made (the earlier fetch was made at 0)
MaxClock == 1

\* robots cache TTL, in ticks (Config.RobotsCacheTTLHours, scaled)
CacheTTL == 1

(***************************************************************************)
(* String helpers (Go's strings package, on symbol sequences)              *)
(***************************************************************************)
\* the element of a one-element set: binds an intermediate result to its value
Val(S) == CHOOSE x \in S : TRUE

HasPrefix(s, p) == Len(p) <= Len(s) /\ SubSeq(s, 1, Len(p)) = p

HasSuffix(s, p) == Len(p) <= Len(s) /\ SubSeq(s, Len(s) - Len(p) + 1, Len(s)) = p

(***************************************************************************)
(* robots.Checker: rule evaluation                                         *)
(***************************************************************************)
\* A plausible slip: a pattern ending in "/" matches without the prefix test
pathMatches_SlashMatchesAll(path, pattern) ==
    IF pattern = <<>> THEN FALSE
    ELSE IF path = pattern THEN TRUE
    ELSE IF HasSuffix(pattern, <<"/">>) THEN TRUE
    ELSE IF HasPrefix(path, pattern \o <<"/">>) THEN TRUE
    ELSE FALSE

\* Checker.pathMatches
pathMatches(path, pattern) ==
    IF pattern = <<>> THEN FALSE
    ELSE IF ~HasPrefix(path, pattern) THEN FALSE
    ELSE IF path = pattern THEN TRUE
    ELSE IF HasSuffix(pattern, <<"/">>) THEN TRUE
    ELSE IF HasPrefix(path, pattern \o <<"/">>) THEN TRUE
    ELSE FALSE

AnyMatch(path, patterns) == \E i \in DOMAIN patterns : pathMatches(path, patterns[i])

\* A plausible slip: the Disallow list is consulted before the Allow list.
checkPathAgainstRule_DisallowFirst(path, rule) ==
    IF AnyMatch(path, rule.Disallow) THEN [allowed |-> FALSE, group |-> rule.UserAgent]
    ELSE [allowed |-> TRUE, group |-> rule.UserAgent]

\* Checker.checkPathAgainstRule: Allow rules first, then Disallow, else allow
checkPathAgainstRule(path, rule) ==
    IF AnyMatch(path, rule.Allow) THEN [allowed |-> TRUE, group |-> rule.UserAgent]
    ELSE IF AnyMatch(path, rule.Disallow) THEN [allowed |-> FALSE, group |-> rule.UserAgent]
    ELSE [allowed |-> TRUE, group |-> rule.UserAgent]

(***************************************************************************)
(* robots.Checker: parsing and group selection                             *)
(***************************************************************************)
NL == "\n"

SP == " "

\* first position of sym in s, 0 when absent
RECURSIVE IndexFrom(_, _, _)
IndexFrom(s, sym, i) ==
    IF i > Len(s) THEN 0
    ELSE IF s[i] = sym THEN i
    ELSE IndexFrom(s, sym, i + 1)

Index(s, sym) == IndexFrom(s, sym, 1)

\* strings.Split(content, "\n")
RECURSIVE SplitLines(_)
SplitLines(s) ==
    LET i == Index(s, NL)
    IN  IF i = 0 THEN <<s>>
        ELSE Val({ <<SubSeq(s, 1, i - 1)>> \o SplitLines(rest) :
                       rest \in {SubSeq(s, i + 1, Len(s))} })

\* strings.TrimSpace
RECURSIVE TrimLeft(_)
TrimLeft(s) == IF s # <<>> /\ Head(s) = SP THEN TrimLeft(Tail(s)) ELSE s

RECURSIVE TrimRight(_)
TrimRight(s) ==
    IF s # <<>> /\ s[Len(s)] = SP THEN TrimRight(SubSeq(s, 1, Len(s) - 1)) ELSE s

TrimSpace(s) == TrimRight(TrimLeft(s))

\* strings.ToLower, symbol by symbol
LowerSym(x) ==
    CASE x = "User-agent" -> "user-agent"
      [] x = "USER-AGENT" -> "user-agent"
      [] x = "Disallow"   -> "disallow"
      [] x = "DISALLOW"   -> "disallow"
      [] x = "Allow"      -> "allow"
      [] x = "Sitemap"    -> "sitemap"
      [] OTHER            -> x

ToLower(s) == [i \in DOMAIN s |-> LowerSym(s[i])]

\* A trimmed line the loop of parseRobotsTxt skips before splitting it
IsBlankOrComment(line) == line = <<>> \/ HasPrefix(line, <<"#">>)

NoRule == [UserAgent |-> <<>>, Disallow |-> <<>>, Allow |-> <<>>]

\* The loop body of parseRobotsTxt on one line: st = [rules, has, cur] where
\* has says whether currentRule is non-nil and cur is *currentRule
parseLine(st, raw) ==
    LET line == TrimSpace(raw)
        c    == Index(line, ":")
        directive == TrimSpace(ToLower(SubSeq(line, 1, c - 1)))
        value     == TrimSpace(SubSeq(line, c + 1, Len(line)))
    IN  IF IsBlankOrComment(line) THEN st
        ELSE IF c = 0 THEN st
        ELSE IF directive = <<"user-agent">> THEN
            [rules |-> IF st.has THEN Append(st.rules, st.cur) ELSE st.rules,
             has   |-> TRUE,
             cur   |-> [UserAgent |-> value, Disallow |-> <<>>, Allow |-> <<>>]]
        ELSE IF directive = <<"disallow">> THEN
            IF st.has
            THEN [st EXCEPT !.cur.Disallow = Append(@, value)]
            ELSE st
        ELSE IF directive = <<"allow">> THEN
            IF st.has
            THEN [st EXCEPT !.cur.Allow = Append(@, value)]
            ELSE st
        ELSE st

RECURSIVE parseLines(_, _, _)
parseLines(lines, i, st) ==
    IF i > Len(lines) THEN st
    ELSE Val({ parseLines(lines, i + 1, st2) : st2 \in {parseLine(st, lines[i])} })

\* Checker.parseRobotsTxt: content (symbols, lines separated by NL) to rule groups
parseRobotsTxt(content) ==
    LET scan(lines) == parseLines(lines, 1,
                           [rules |-> <<>>, has |-> FALSE, cur |-> NoRule])
        flush(st) == IF st.has THEN Append(st.rules, st.cur) ELSE st.rules
    IN  Val({ Val({ flush(st) : st \in {scan(lines)} }) :
                  lines \in {SplitLines(content)} })

\* index of the last rule of rules whose group is "*" and not userAgent; 0 if none
RECURSIVE LastWildcard(_, _, _)
LastWildcard(rules, userAgent, i) ==
    IF i = 0 THEN 0
    ELSE IF rules[i].UserAgent # userAgent /\ rules[i].UserAgent = <<"*">> THEN i
    ELSE LastWildcard(rules, userAgent, i - 1)

\* A plausible slip: the wildcard group is consulted along with the exact groups
checkPath_WildcardToo(path, rules, userAgent) ==
    LET matched == SelectSeq(rules, LAMBDA r : r.UserAgent = userAgent
                                               \/ r.UserAgent = <<"*">>)
        allowing == {i \in DOMAIN matched :
                        checkPathAgainstRule(path, matched[i]).allowed}
    IN  IF matched = <<>> THEN [allowed |-> TRUE, group |-> <<>>]
        ELSE IF allowing # {}
        THEN checkPathAgainstRule(path,
                 matched[CHOOSE i \in allowing : \A j \in allowing : i <= j])
        ELSE [allowed |-> FALSE, group |-> matched[1].UserAgent]

\* Checker.checkPath: exact groups, else the wildcard group, else allow
checkPath(path, rules, userAgent) ==
    LET exact   == SelectSeq(rules, LAMBDA r : r.UserAgent = userAgent)
        w       == LastWildcard(rules, userAgent, Len(rules))
        decide(matched) ==
            LET allowing == {i \in DOMAIN matched :
                                checkPathAgainstRule(path, matched[i]).allowed}
            IN  IF matched = <<>> THEN [allowed |-> TRUE, group |-> <<>>]
                ELSE IF allowing # {}
                THEN checkPathAgainstRule(path,
                         matched[CHOOSE i \in allowing : \A j \in allowing : i <= j])
                ELSE [allowed |-> FALSE, group |-> matched[1].UserAgent]
    IN  Val({ decide(matched) :
                  matched \in {IF exact = <<>> /\ w # 0 THEN <<rules[w]>> ELSE exact} })

(***************************************************************************)
(* SpecRobots: checkPathAgainstRule applied to drawn rules and paths       *)
(***************************************************************************)
Patterns ==
    { <<>>,
      <<"/", "admin", "/">>,
      <<"/", "admin", "/", "public", "/">>,
      <<"/", "admin">> }

Paths ==
    { <<"/">>,
      <<"/", "admin">>,
      <<"/", "admin", "/">>,
      <<"/", "admin", "/", "public", "/", "x">>,
      <<"/", "admin", "/", "secret">>,
      <<"/", "admin", "istrator">>,
      <<"/", "products", "/", "1">> }

PatternLists == UNION { [1..n -> Patterns] : n \in 0..MaxPatterns }

DrawnRules ==
    [UserAgent : {<<"*">>}, Disallow : PatternLists, Allow : PatternLists]

RobotsIdle ==
    /\ rbRule = [UserAgent |-> <<"*">>, Disallow |-> <<>>, Allow |-> <<>>]
    /\ rbPath = <<"/">>
    /\ rbOut = NoOut

RobotsInit ==
    /\ rbRule \in DrawnRules
    /\ rbPath \in Paths
    /\ rbOut = NoOut

RbCheckRule ==
    /\ ~rbOut.done
    /\ rbOut' = LET r == checkPathAgainstRule(rbPath, rbRule)
                IN  [done |-> TRUE, allowed |-> r.allowed, group |-> r.group]
    /\ UNCHANGED <<rbRule, rbPath, backoffVars, clientVars, otherVars>>

(***************************************************************************)
(* time.Duration: a 64-bit two's-complement count of nanoseconds, kept as  *)
(* four 16-bit limbs (least significant first) so that the wrap-around of  *)
(* Go's int64 arithmetic is computed exactly.                              *)
(***************************************************************************)
LimbBase == 2^16

I64FromNat(x) == <<x % LimbBase, x \div LimbBase, 0, 0>>

\* a + b modulo 2^64
I64Add(a, b) ==
    LET s1 == a[1] + b[1]
        s2 == a[2] + b[2] + (s1 \div LimbBase)
        s3 == a[3] + b[3] + (s2 \div LimbBase)
        s4 == a[4] + b[4] + (s3 \div LimbBase)
    IN  <<s1 % LimbBase, s2 % LimbBase, s3 % LimbBase, s4 % LimbBase>>

I64IsNeg(a) == a[4] >= LimbBase \div 2

\* unsigned comparison, most significant limb first
I64ULess(a, b) ==
    \/ a[4] < b[4]
    \/ a[4] = b[4] /\ a[3] < b[3]
    \/ a[4] = b[4] /\ a[3] = b[3] /\ a[2] < b[2]
    \/ a[4] = b[4] /\ a[3] = b[3] /\ a[2] = b[2] /\ a[1] < b[1]

\* signed a < b
I64Less(a, b) ==
    IF I64IsNeg(a) # I64IsNeg(b) THEN I64IsNeg(a) ELSE I64ULess(a, b)

I64Geq(a, b) == ~I64Less(a, b)

\* 2^n * d modulo 2^64: the int64 product time.Duration(math.Pow(2, n)) * d,
\* exact for 0 <= n <= 62 where the float-to-integer conversion is exact
RECURSIVE I64Shl(_, _)
I64Shl(d, n) ==
    IF n = 0 THEN d
    ELSE Val({ I64Shl(d2, n - 1) : d2 \in {I64Add(d, d)} })

\* time.Second and time.Millisecond in nanoseconds
Second == 1000000000

Millisecond == 1000000

\* rand.Intn(1000): the drawn jitters, both ends of the range included
JitterRange == 1000

Jitters == {0, 1, JitterRange \div 2, JitterRange - 1}

\* exponentialBackoff, with the drawn jitter (milliseconds) as a parameter
exponentialBackoff(n, jitterMs) ==
    LET base        == I64FromNat(Second)
        exponential == I64Shl(base, n)
        jitter      == I64FromNat(jitterMs * Millisecond)
    IN  I64Add(exponential, jitter)

(***************************************************************************)
(* SpecBackoff: the backoffs the retry loop of Client.Get computes for     *)
(* attempt = 0, 1, 2, ... while every attempt ends in a retryable outcome. *)
(***************************************************************************)
BackoffIdle ==
    /\ boAttempt = 0
    /\ boPrev = I64FromNat(0)
    /\ boCur = I64FromNat(0)

BackoffInit == BackoffIdle

BoRetry ==
    /\ boAttempt <= MaxBackoffAttempt
    /\ \E j \in Jitters :
          boCur' = exponentialBackoff(boAttempt, j)
    /\ boPrev' = boCur
    /\ boAttempt' = boAttempt + 1
    /\ UNCHANGED <<robotsVars, clientVars, otherVars>>

(***************************************************************************)
(* httpclient.IsExternalURL                                                *)
(* A URL is [valid, scheme, host, path]: valid is FALSE when url.Parse     *)
(* fails; host and path are symbol sequences.                              *)
(***************************************************************************)
Contains(s, sym) == \E i \in DOMAIN s : s[i] = sym

LowerHost(h) == [i \in DOMAIN h |-> IF h[i] = "LOCALHOST" THEN "localhost" ELSE h[i]]

PrivatePrefixes ==
    { "192.168.", "10.", "172.16.", "172.17.", "172.18.", "172.19.", "172.20.",
      "172.21.", "172.22.", "172.23.", "172.24.", "172.25.", "172.26.", "172.27.",
      "172.28.", "172.29.", "172.30.", "172.31." }

IsExternalURL(u) ==
    IF ~u.valid THEN [external |-> FALSE, err |-> TRUE]
    ELSE IF u.scheme # "http" /\ u.scheme # "https" THEN [external |-> FALSE, err |-> FALSE]
    ELSE IF u.host = <<>> THEN [external |-> FALSE, err |-> FALSE]
    ELSE LET host == LowerHost(u.host)
         IN  IF \/ Contains(host, "localhost")
                \/ Contains(host, "127.0.0.1")
                \/ Contains(host, "::1")
                \/ \E p \in PrivatePrefixes : HasPrefix(host, <<p>>)
             THEN [external |-> FALSE, err |-> FALSE]
             ELSE [external |-> TRUE, err |-> FALSE]

MkURL(scheme, host, path) ==
    [valid |-> TRUE, scheme |-> scheme, host |-> host, path |-> path]

BadURL == [valid |-> FALSE, scheme |-> "", host |-> <<>>, path |-> <<>>]

ExampleHost == <<"example.com">>

URLs ==
    { BadURL,
      MkURL("https", ExampleHost, <<"/", "admin", "/", "secret">>),
      MkURL("https", ExampleHost, <<"/", "admin", "/", "public", "/", "x">>),
      MkURL("http", ExampleHost, <<"/", "products", "/", "1">>),
      MkURL("http", <<"LOCALHOST", ":8080">>, <<"/", "blocked", "/", "test">>),
      MkURL("https", <<"172.16.", "0.9">>, <<>>),
      MkURL("file", <<>>, <<"/", "products", "/", "1">>),
      MkURL("http", <<>>, <<"/", "products", "/", "1">>) }

(***************************************************************************)
(* ratelimit.Manager                                                       *)
(***************************************************************************)
Keys == {"demo", "other"}

NoLimiter == -1

\* Config.ProviderRateLimits and Config.DefaultRateLimit: the burst of a key
DemoBurst == 2

DefaultBurst == 2

ConfigBurst(k) == IF k = "demo" THEN DemoBurst ELSE DefaultBurst

\* Manager.getLimiter: the limiters map after get-or-create of key k
getLimiter(lims, k) ==
    IF lims[k] # NoLimiter THEN lims ELSE [lims EXCEPT ![k] = ConfigBurst(k)]

(***************************************************************************)
(* robots.Checker: fetching, caching, CanFetch                             *)
(***************************************************************************)
UserAgent == <<"PriceCompareBot">>

AdminFile ==
    <<"User-agent", ":", SP, "*", NL,
      "Disallow", ":", SP, "/", "admin", "/", NL,
      "Allow", ":", SP, "/", "admin", "/", "public", "/", NL>>

BotFile ==
    <<"User-agent", ":", SP, "*", NL,
      "Disallow", ":", SP, "/", "admin", "/", NL,
      NL,
      "User-agent", ":", SP, "PriceCompareBot", NL,
      "Allow", ":", SP, "/", "products", "/", NL,
      "DISALLOW", ":", SP, "/", "admin", "/", NL>>

BlockAllFile == <<"User-agent", ":", SP, "*", NL, "Disallow", ":", SP, "/", NL>>

\* an HTML error page served with status 200
GarbageFile == <<"<html>", NL, "<body>", "not", SP, "found", "</body>", NL>>

\* BlockAllFile cut short by a read error after its first line
TruncatedFile == <<"User-agent", ":", SP, "*", NL>>

EmptyFile == <<>>

\* What one request for robots.txt meets: a transport error, a status other
\* than 200, a complete body, or a body whose read ends in an error
NetErr == [kind |-> "neterr", status |-> 0, content |-> <<>>]

Status(n) == [kind |-> "status", status |-> n, content |-> <<>>]

Body(c) == [kind |-> "ok", status |-> 200, content |-> c]

ReadErr(c) == [kind |-> "readerr", status |-> 200, content |-> c]

\* What the origin answers over https and over http
Servers ==
    { [https |-> Body(c), http |-> Body(c)] :
          c \in {AdminFile, BotFile, BlockAllFile, GarbageFile, EmptyFile} }
    \cup { [https |-> NetErr, http |-> NetErr],
           [https |-> Status(404), http |-> Status(404)],
           [https |-> NetErr, http |-> Body(BlockAllFile)],
           [https |-> Status(503), http |-> NetErr],
           [https |-> ReadErr(TruncatedFile), http |-> ReadErr(TruncatedFile)] }

Down == [https |-> NetErr, http |-> NetErr]

\* Checker.fetchRobotsTxt for an origin of the given scheme: https first, then
\* http when the origin is http.  failed: no complete body was read.
fetchRobotsTxt(scheme, srv) ==
    IF srv.https.kind \in {"ok", "readerr"}
    THEN [err |-> FALSE, content |-> srv.https.content, requests |-> 1,
          failed |-> srv.https.kind = "readerr"]
    ELSE IF scheme = "http"
    THEN IF srv.http.kind \in {"ok", "readerr"}
         THEN [err |-> FALSE, content |-> srv.http.content, requests |-> 2,
               failed |-> srv.http.kind = "readerr"]
         ELSE [err |-> TRUE, content |-> <<>>, requests |-> 2, failed |-> TRUE]
    ELSE [err |-> TRUE, content |-> <<>>, requests |-> 1, failed |-> TRUE]

CacheKeys == {"http", "https"} \X {ExampleHost}

NoEntry == [has |-> FALSE, content |-> <<>>, expiresAt |-> 0]

\* A plausible slip: a cached entry is served whatever its age
getRobotsTxt_NoExpiry(cacheKey, scheme, srv, hasCache, redis, mem, t) ==
    IF hasCache /\ redis[cacheKey].has /\ Len(redis[cacheKey].content) > 0
    THEN [err |-> FALSE, content |-> redis[cacheKey].content, requests |-> 0,
          failed |-> FALSE, redis |-> redis, mem |-> mem, tier |-> "persistent"]
    ELSE IF mem[cacheKey].has
    THEN [err |-> FALSE, content |-> mem[cacheKey].content, requests |-> 0,
          failed |-> FALSE, redis |-> redis, mem |-> mem, tier |-> "memory"]
    ELSE LET f == fetchRobotsTxt(scheme, srv)
             e == [has |-> TRUE, content |-> f.content, expiresAt |-> t + CacheTTL]
         IN  IF f.err
             THEN [err |-> TRUE, content |-> <<>>, requests |-> f.requests,
                   failed |-> TRUE, redis |-> redis, mem |-> mem, tier |-> "network"]
             ELSE [err |-> FALSE, content |-> f.content, requests |-> f.requests,
                   failed |-> f.failed,
                   redis |-> IF hasCache THEN [redis EXCEPT ![cacheKey] = e] ELSE redis,
                   mem |-> [mem EXCEPT ![cacheKey] = e], tier |-> "network"]

\* Checker.getRobotsTxt: persistent cache, memory cache, network; the result
\* carries the two caches as the call leaves them and the tier that answered
getRobotsTxt(cacheKey, scheme, srv, hasCache, redis, mem, t) ==
    IF hasCache /\ redis[cacheKey].has /\ t < redis[cacheKey].expiresAt
               /\ Len(redis[cacheKey].content) > 0
    THEN [err |-> FALSE, content |-> redis[cacheKey].content, requests |-> 0,
          failed |-> FALSE, redis |-> redis, mem |-> mem, tier |-> "persistent"]
    ELSE IF mem[cacheKey].has /\ t < mem[cacheKey].expiresAt
    THEN [err |-> FALSE, content |-> mem[cacheKey].content, requests |-> 0,
          failed |-> FALSE, redis |-> redis, mem |-> mem, tier |-> "memory"]
    ELSE LET f == fetchRobotsTxt(scheme, srv)
             e == [has |-> TRUE, content |-> f.content, expiresAt |-> t + CacheTTL]
         IN  IF f.err
             THEN [err |-> TRUE, content |-> <<>>, requests |-> f.requests,
                   failed |-> TRUE, redis |-> redis, mem |-> mem, tier |-> "network"]
             ELSE [err |-> FALSE, content |-> f.content, requests |-> f.requests,
                   failed |-> f.failed,
                   redis |-> IF hasCache THEN [redis EXCEPT ![cacheKey] = e] ELSE redis,
                   mem |-> [mem EXCEPT ![cacheKey] = e], tier |-> "network"]

\* A robots.txt the parser cannot make sense of: some line that is neither
\* blank nor a comment has no "key: value" shape
Malformed(content) ==
    \E lines \in {SplitLines(content)} :
        \E i \in DOMAIN lines :
            \E line \in {TrimSpace(lines[i])} :
                ~IsBlankOrComment(line) /\ Index(line, ":") = 0

\* Checker.CanFetch
CanFetch(u, userAgent, srv, hasCache, redis, mem, t) ==
    LET path == IF u.path = <<>> THEN <<"/">> ELSE u.path
        answer(g, r) ==
            IF g.err
            THEN [allowed |-> FALSE, group |-> <<>>, err |-> TRUE,
                  requests |-> g.requests, failed |-> TRUE, malformed |-> FALSE,
                  redis |-> g.redis, mem |-> g.mem]
            ELSE [allowed |-> r.allowed, group |-> r.group, err |-> FALSE,
                  requests |-> g.requests, failed |-> g.failed,
                  malformed |-> Malformed(g.content),
                  redis |-> g.redis, mem |-> g.mem]
        check(g) ==
            Val({ Val({ answer(g, r) : r \in {checkPath(path, rules, userAgent)} }) :
                      rules \in {parseRobotsTxt(g.content)} })
    IN  Val({ check(g) :
                  g \in {getRobotsTxt(<<u.scheme, u.host>>, u.scheme, srv,
                                      hasCache, redis, mem, t)} })

(***************************************************************************)
(* audit.LogRequest: one entry appended to the sink                        *)
(***************************************************************************)
Entry(status, allowed, group, retries, error) ==
    [status |-> status, robotsAllowed |-> allowed, robotsGroup |-> group,
     retryCount |-> retries, error |-> error]

LogRequest(log, entry) == Append(log, entry)

(***************************************************************************)
(* Client.Get                                                              *)
(***************************************************************************)
NoRet == [done |-> FALSE, status |-> 0, err |-> "", cause |-> ""]

Return(status, err, cause) ==
    [done |-> TRUE, status |-> status, err |-> err, cause |-> cause]

NoNet == [robots |-> 0, gets |-> 0, waits |-> 0, tokens |-> 0, gate |-> 0]

NoGate == [called |-> FALSE, fetchFailed |-> FALSE, malformed |-> FALSE,
           allowed |-> FALSE, err |-> FALSE]

Zero == I64FromNat(0)

NoOutcome == [kind |-> "none", status |-> 0, cause |-> "", sent |-> FALSE]

NoOutcomes == [tries |-> 0, last |-> NoOutcome, only429 |-> TRUE]

\* A plausible slip: the block applies to every URL, internal ones included
LiveFetchBlocked_AnyURL(isExternal, allowLiveFetch) == ~allowLiveFetch

\* A plausible slip: the flag is never consulted
LiveFetchBlocked_Never(isExternal, allowLiveFetch) == FALSE

\* Get: "isExternal && !c.cfg.AllowLiveFetch"
LiveFetchBlocked(isExternal, allowLiveFetch) == isExternal /\ ~allowLiveFetch

\* A plausible slip: only a gate error rejects, a disallow answer is let through
GateRejects_ErrorOnly(c) == c.err

\* Get: the two rejections after CanFetch, "err != nil" and "!allowed"
GateRejects(c) == c.err \/ ~c.allowed

\* Get: "resp.StatusCode == 429 || (resp.StatusCode >= 500 && resp.StatusCode < 600)"
shouldRetry(status) == status = 429 \/ (status >= 500 /\ status < 600)

\* A plausible slip: off by one, a retry is still made at attempt = maxRetries
RetriesLeft_OffByOne(att, maxRetries) == att <= maxRetries

\* Get: "attempt < maxRetries"
RetriesLeft(att, maxRetries) == att < maxRetries

Statuses == {200, 301, 404, 429, 503}

\* What httpClient.Do(req) can return: with the context done, the context's
\* error before anything is sent; for a URL the transport cannot serve, an
\* error before anything is sent; else a transport error or a response
DoOutcomes(u, cancelled) ==
    IF cancelled
    THEN {[kind |-> "err", status |-> 0, cause |-> "ctx", sent |-> FALSE]}
    ELSE IF (u.scheme # "http" /\ u.scheme # "https") \/ u.host = <<>>
    THEN {[kind |-> "err", status |-> 0, cause |-> "unsupported", sent |-> FALSE]}
    ELSE {[kind |-> "err", status |-> 0, cause |-> "net", sent |-> TRUE]}
         \cup {[kind |-> "resp", status |-> st, cause |-> "", sent |-> TRUE] :
                  st \in Statuses}

\* the jitters drawn in the client model: both ends of rand.Intn(1000)
ClientJitters == {0, JitterRange - 1}

\* What an earlier call left in the robots caches: nothing, or the robots.txt
\* it fetched at time 0 (kept until CacheTTL) with the audit entry of that call
PriorFiles == {EmptyFile, BlockAllFile, AdminFile}

PriorEntry(c) ==
    IF c = EmptyFile THEN NoEntry
    ELSE [has |-> TRUE, content |-> c, expiresAt |-> CacheTTL]

PriorAudit(c) ==
    IF c = EmptyFile THEN <<>>
    ELSE <<Entry(0, FALSE, <<"*">>, 0, "robots_disallow")>>

ClientInit ==
    /\ cfg \in [AllowLiveFetch : BOOLEAN, HTTPMaxRetries : 0..MaxRetriesBound,
                hasCache : BOOLEAN]
    /\ pc = "idle"
    /\ url = BadURL
    /\ key = "demo"
    /\ ctxCancelled = FALSE
    /\ attempt = 0
    /\ retryCount = 0
    /\ robotsAllowed = FALSE
    /\ robotsGroup = <<>>
    /\ lastErr = ""
    /\ backoff = Zero
    /\ ret = NoRet
    /\ \E c \in PriorFiles :
          /\ memoryCache = [ck \in CacheKeys |-> PriorEntry(c)]
          /\ redisCache = [ck \in CacheKeys |->
                              IF cfg.hasCache THEN PriorEntry(c) ELSE NoEntry]
          /\ auditLog = PriorAudit(c)
    \* earlier traffic left no limiter, or limiters with no token left
    /\ limiters \in {[k \in Keys |-> NoLimiter], [k \in Keys |-> 0]}
    /\ now \in 0..MaxClock
    /\ auditMark = Len(auditLog)
    /\ net = NoNet
    /\ outcomes = NoOutcomes
    /\ gate = NoGate

ClientIdle ==
    /\ cfg = [AllowLiveFetch |-> FALSE, HTTPMaxRetries |-> 0, hasCache |-> FALSE]
    /\ pc = "idle"
    /\ url = BadURL
    /\ key = "demo"
    /\ ctxCancelled = FALSE
    /\ attempt = 0
    /\ retryCount = 0
    /\ robotsAllowed = FALSE
    /\ robotsGroup = <<>>
    /\ lastErr = ""
    /\ backoff = Zero
    /\ ret = NoRet
    /\ auditLog = <<>>
    /\ limiters = [k \in Keys |-> NoLimiter]
    /\ memoryCache = [ck \in CacheKeys |-> NoEntry]
    /\ redisCache = [ck \in CacheKeys |-> NoEntry]
    /\ now = 0
    /\ auditMark = 0
    /\ net = NoNet
    /\ outcomes = NoOutcomes
    /\ gate = NoGate

\* Get, from its entry to the robots check or to the rate limiter's Wait
Get ==
    /\ pc = "idle"
    /\ \E u \in URLs, k \in Keys :
        LET e == IsExternalURL(u)
        IN  /\ url' = u
            /\ key' = k
            /\ IF e.err
               THEN /\ pc' = "done"
                    /\ ret' = Return(0, "invalid_url", "parse")
                    /\ auditLog' = auditLog
                    /\ limiters' = limiters
                    /\ net' = NoNet
               ELSE IF LiveFetchBlocked(e.external, cfg.AllowLiveFetch)
               THEN /\ pc' = "done"
                    /\ ret' = Return(0, "live_fetch_disabled", "")
                    /\ auditLog' = LogRequest(auditLog,
                                       Entry(0, FALSE, <<>>, 0, "live_fetch_disabled"))
                    /\ limiters' = limiters
                    /\ net' = NoNet
               ELSE IF e.external
               THEN /\ pc' = "robots"
                    /\ ret' = NoRet
                    /\ auditLog' = auditLog
                    /\ limiters' = limiters
                    /\ net' = NoNet
               ELSE /\ pc' = "wait"
                    /\ ret' = NoRet
                    /\ auditLog' = auditLog
                    /\ limiters' = getLimiter(limiters, k)
                    /\ net' = [NoNet EXCEPT !.waits = 1]
    /\ ctxCancelled' = FALSE
    /\ attempt' = 0
    /\ retryCount' = 0
    /\ robotsAllowed' = FALSE
    /\ robotsGroup' = <<>>
    /\ lastErr' = ""
    /\ backoff' = Zero
    /\ auditMark' = Len(auditLog)
    /\ outcomes' = NoOutcomes
    /\ gate' = NoGate
    /\ UNCHANGED <<cfg, memoryCache, redisCache, now, robotsVars, backoffVars, otherVars>>

\* Get: the robots check of an external URL, CanFetch included
RobotsCheck ==
    /\ pc = "robots"
    /\ \E srv \in (IF ctxCancelled THEN {Down} ELSE Servers) :
        \E c \in {CanFetch(url, UserAgent, srv, cfg.hasCache, redisCache,
                           memoryCache, now)} :
        LET n == [net EXCEPT !.gate = 1,
                             !.robots = IF ctxCancelled THEN 0 ELSE c.requests]
        IN  /\ memoryCache' = c.mem
            /\ redisCache' = c.redis
            /\ gate' = [called |-> TRUE, fetchFailed |-> c.failed,
                        malformed |-> c.malformed, allowed |-> c.allowed,
                        err |-> c.err]
            /\ IF GateRejects(c)
               THEN /\ pc' = "done"
                    /\ IF c.err
                       THEN /\ ret' = Return(0, "robots_check_failed", "robots")
                            /\ auditLog' = LogRequest(auditLog,
                                   Entry(0, FALSE, <<>>, 0, "robots_check_failed"))
                       ELSE /\ ret' = Return(0, "robots_disallow", "")
                            /\ auditLog' = LogRequest(auditLog,
                                   Entry(0, FALSE, c.group, 0, "robots_disallow"))
                    /\ net' = n
                    /\ UNCHANGED <<robotsAllowed, robotsGroup, limiters>>
               ELSE /\ pc' = "wait"
                    /\ robotsAllowed' = TRUE
                    /\ robotsGroup' = c.group
                    /\ limiters' = getLimiter(limiters, key)
                    /\ net' = [n EXCEPT !.waits = 1]
                    /\ UNCHANGED <<ret, auditLog>>
    /\ UNCHANGED <<cfg, url, key, ctxCancelled, attempt, retryCount, lastErr,
                   backoff, now, auditMark, outcomes,
                   robotsVars, backoffVars, otherVars>>

\* the caller cancels the context of the call in progress
Cancel ==
    /\ pc \in {"robots", "wait", "attempt", "backoff"}
    /\ ~ctxCancelled
    /\ ctxCancelled' = TRUE
    /\ UNCHANGED <<cfg, pc, url, key, attempt, retryCount, robotsAllowed,
                   robotsGroup, lastErr, backoff, ret, auditLog, limiters,
                   memoryCache, redisCache, now, auditMark, net,
                   outcomes, gate, robotsVars, backoffVars, otherVars>>

\* Manager.Wait returns nil: a token of the key's limiter is taken
WaitAcquire ==
    /\ pc = "wait"
    /\ ~ctxCancelled
    /\ limiters[key] > 0
    /\ limiters' = [limiters EXCEPT ![key] = @ - 1]
    /\ net' = [net EXCEPT !.tokens = @ + 1]
    /\ pc' = "attempt"
    /\ attempt' = 0
    /\ retryCount' = 0
    /\ UNCHANGED <<cfg, url, key, ctxCancelled, robotsAllowed, robotsGroup,
                   lastErr, backoff, ret, auditLog, memoryCache, redisCache,
                   now, auditMark, outcomes, gate,
                   robotsVars, backoffVars, otherVars>>

\* Manager.Wait returns the context's error; Get returns it wrapped
WaitCancelled ==
    /\ pc = "wait"
    /\ ctxCancelled
    /\ pc' = "done"
    /\ ret' = Return(0, "rate_limit_wait", "ctx")
    /\ UNCHANGED <<cfg, url, key, ctxCancelled, attempt, retryCount,
                   robotsAllowed, robotsGroup, lastErr, backoff, auditLog,
                   limiters, memoryCache, redisCache, now, auditMark,
                   net, outcomes, gate, robotsVars, backoffVars, otherVars>>

\* time passes while the caller is suspended in Wait: the token bucket of its
\* key refills, one token at a time, up to the burst
Refill ==
    /\ pc = "wait"
    /\ limiters[key] < ConfigBurst(key)
    /\ limiters' = [limiters EXCEPT ![key] = @ + 1]
    /\ UNCHANGED <<cfg, pc, url, key, ctxCancelled, attempt, retryCount,
                   robotsAllowed, robotsGroup, lastErr, backoff, ret, auditLog,
                   memoryCache, redisCache, now, auditMark, net,
                   outcomes, gate, robotsVars, backoffVars, otherVars>>

\* one iteration of the retry loop, up to the backoff sleep or the return
Attempt ==
    /\ pc = "attempt"
    /\ \E o \in DoOutcomes(url, ctxCancelled) :
        /\ outcomes' = [tries |-> outcomes.tries + 1, last |-> o,
                        only429 |-> outcomes.only429 /\ o.status = 429]
        /\ net' = [net EXCEPT !.gets = @ + (IF o.sent THEN 1 ELSE 0)]
        /\ lastErr' = IF o.kind = "err" THEN o.cause ELSE lastErr
        /\ IF /\ o.kind = "err" \/ shouldRetry(o.status)
              /\ RetriesLeft(attempt, cfg.HTTPMaxRetries)
           THEN /\ pc' = "backoff"
                /\ \E j \in ClientJitters : backoff' = exponentialBackoff(attempt, j)
                /\ UNCHANGED <<attempt, ret, auditLog>>
           ELSE IF o.kind = "err"
           THEN /\ pc' = "done"
                /\ attempt' = attempt + 1
                /\ auditLog' = LogRequest(auditLog,
                       Entry(0, robotsAllowed, robotsGroup, retryCount, o.cause))
                /\ ret' = Return(0, "retries_exhausted", o.cause)
                /\ backoff' = backoff
           ELSE /\ pc' = "done"
                /\ auditLog' = LogRequest(auditLog,
                       Entry(o.status, robotsAllowed, robotsGroup, retryCount, ""))
                /\ ret' = Return(o.status, "", "")
                /\ UNCHANGED <<attempt, backoff>>
    /\ UNCHANGED <<cfg, url, key, ctxCancelled, retryCount, robotsAllowed,
                   robotsGroup, limiters, memoryCache, redisCache, now, auditMark,
                   gate, robotsVars, backoffVars, otherVars>>

\* A plausible slip: the sleep is a plain time.Sleep that ignores the context
BackoffElapsed_IgnoresCancel ==
    /\ pc = "backoff"
    /\ pc' = "attempt"
    /\ attempt' = attempt + 1
    /\ retryCount' = attempt + 1
    /\ backoff' = Zero
    /\ UNCHANGED <<cfg, url, key, ctxCancelled, robotsAllowed, robotsGroup,
                   lastErr, ret, auditLog, limiters, memoryCache, redisCache,
                   now, auditMark, net, outcomes, gate,
                   robotsVars, backoffVars, otherVars>>

\* A plausible slip: the limiter's Wait sits inside the retry loop, so every
\* retry takes a token of its own
BackoffElapsed_WaitsAgain ==
    /\ pc = "backoff"
    /\ ~ctxCancelled
    /\ pc' = "attempt"
    /\ attempt' = attempt + 1
    /\ retryCount' = attempt + 1
    /\ backoff' = Zero
    /\ net' = [net EXCEPT !.waits = @ + 1, !.tokens = @ + 1]
    /\ UNCHANGED <<cfg, url, key, ctxCancelled, robotsAllowed, robotsGroup,
                   lastErr, ret, auditLog, limiters, memoryCache, redisCache,
                   now, auditMark, outcomes, gate,
                   robotsVars, backoffVars, otherVars>>

\* the backoff timer fires: "case <-time.After(backoff): continue"
BackoffElapsed ==
    /\ pc = "backoff"
    /\ ~ctxCancelled
    /\ pc' = "attempt"
    /\ attempt' = attempt + 1
    /\ retryCount' = attempt + 1
    /\ backoff' = Zero
    /\ UNCHANGED <<cfg, url, key, ctxCancelled, robotsAllowed, robotsGroup,
                   lastErr, ret, auditLog, limiters, memoryCache, redisCache,
                   now, auditMark, net, outcomes, gate,
                   robotsVars, backoffVars, otherVars>>

\* the context is done during the backoff: "case <-ctx.Done(): return nil, ctx.Err()"
BackoffCancelled ==
    /\ pc = "backoff"
    /\ ctxCancelled
    /\ pc' = "done"
    /\ ret' = Return(0, "ctx", "ctx")
    /\ UNCHANGED <<cfg, url, key, ctxCancelled, attempt, retryCount,
                   robotsAllowed, robotsGroup, lastErr, backoff, auditLog,
                   limiters, memoryCache, redisCache, now, auditMark,
                   net, outcomes, gate, robotsVars, backoffVars, otherVars>>

(***************************************************************************)
(* SpecMatch: pathMatches applied to every path and pattern over a small   *)
(* alphabet                                                                *)
(***************************************************************************)
MatchSymbols == {"/", "admin", "x"}

MatchStrings == UNION { [1..n -> MatchSymbols] : n \in 0..MaxMatchLen }

NoMatchOut == [done |-> FALSE, matched |-> FALSE]

MatchIdle ==
    /\ pmPath = <<>>
    /\ pmPattern = <<>>
    /\ pmOut = NoMatchOut

MatchInit ==
    /\ pmPath \in MatchStrings
    /\ pmPattern \in MatchStrings
    /\ pmOut = NoMatchOut

PmMatch ==
    /\ ~pmOut.done
    /\ pmOut' = [done |-> TRUE, matched |-> pathMatches(pmPath, pmPattern)]
    /\ UNCHANGED <<pmPath, pmPattern, groupVars, cacheVars, mgrVars, pipelineVars, restVars>>

(***************************************************************************)
(* SpecGroups: checkPath applied to drawn lists of groups                  *)
(***************************************************************************)
OtherAgent == <<"Googlebot">>

GroupAgents == {UserAgent, <<"*">>, OtherAgent}

\* the bodies of the drawn groups: no rule, everything disallowed, /admin/
\* disallowed
GroupBodies ==
    { [Disallow |-> <<>>, Allow |-> <<>>],
      [Disallow |-> << <<"/">> >>, Allow |-> <<>>],
      [Disallow |-> << <<"/", "admin", "/">> >>, Allow |-> <<>>] }

DrawnGroups ==
    { [UserAgent |-> a, Disallow |-> b.Disallow, Allow |-> b.Allow] :
          a \in GroupAgents, b \in GroupBodies }

GroupLists == UNION { [1..n -> DrawnGroups] : n \in 0..MaxGroups }

GroupPaths == { <<"/", "admin", "/", "secret">>, <<"/", "products", "/", "1">> }

GroupsIdle ==
    /\ gsRules = <<>>
    /\ gsPath = <<"/">>
    /\ gsAgent = UserAgent
    /\ gsOut = NoOut

GroupsInit ==
    /\ gsRules \in GroupLists
    /\ gsPath \in GroupPaths
    /\ gsAgent \in {UserAgent, OtherAgent}
    /\ gsOut = NoOut

GsCheckPath ==
    /\ ~gsOut.done
    /\ gsOut' = LET r == checkPath(gsPath, gsRules, gsAgent)
                IN  [done |-> TRUE, allowed |-> r.allowed, group |-> r.group]
    /\ UNCHANGED <<gsRules, gsPath, gsAgent, matchVars, cacheVars, mgrVars,
                   pipelineVars, restVars>>

(***************************************************************************)
(* SpecCache: CanFetch called again and again on one Checker while time    *)
(* passes                                                                  *)
(***************************************************************************)
CacheURLs ==
    { MkURL("https", ExampleHost, <<"/", "admin", "/", "secret">>),
      MkURL("http", ExampleHost, <<"/", "products", "/", "1">>) }

\* what the origin answers at the time of a call
CacheServers ==
    { [https |-> Body(c), http |-> Body(c)] : c \in {AdminFile, BlockAllFile, EmptyFile} }
    \cup { Down, [https |-> Status(404), http |-> Status(404)] }

NoFetch == [has |-> FALSE, at |-> 0, content |-> <<>>]

NoCall == [called |-> FALSE, key |-> <<"https", ExampleHost>>, at |-> 0,
           prior |-> NoFetch, requests |-> 0, err |-> FALSE, tier |-> "",
           served |-> <<>>]

CacheIdle ==
    /\ ccHasCache = FALSE
    /\ ccMem = [ck \in CacheKeys |-> NoEntry]
    /\ ccRedis = [ck \in CacheKeys |-> NoEntry]
    /\ ccNow = 0
    /\ ccFetched = [ck \in CacheKeys |-> NoFetch]
    /\ ccLast = NoCall

\* NewChecker: empty caches, with or without a persistent cache
CacheInit ==
    /\ ccHasCache \in BOOLEAN
    /\ ccMem = [ck \in CacheKeys |-> NoEntry]
    /\ ccRedis = [ck \in CacheKeys |-> NoEntry]
    /\ ccNow = 0
    /\ ccFetched = [ck \in CacheKeys |-> NoFetch]
    /\ ccLast = NoCall

\* one CanFetch call
CcCanFetch ==
    \E u \in CacheURLs, srv \in CacheServers :
        \E k \in {<<u.scheme, u.host>>} :
        \E c \in {CanFetch(u, UserAgent, srv, ccHasCache, ccRedis, ccMem, ccNow)} :
        \E g \in {getRobotsTxt(k, u.scheme, srv, ccHasCache, ccRedis, ccMem, ccNow)} :
            /\ ccMem' = c.mem
            /\ ccRedis' = c.redis
            /\ ccLast' = [called |-> TRUE, key |-> k, at |-> ccNow,
                          prior |-> ccFetched[k], requests |-> c.requests,
                          err |-> c.err, tier |-> g.tier,
                          served |-> fetchRobotsTxt(u.scheme, srv).content]
            /\ ccFetched' = IF c.requests > 0 /\ ~c.err
                            THEN [ccFetched EXCEPT ![k] =
                                     [has |-> TRUE, at |-> ccNow, content |-> g.content]]
                            ELSE ccFetched
            /\ UNCHANGED <<ccHasCache, ccNow, matchVars, groupVars, mgrVars,
                           pipelineVars, restVars>>

\* time passes
CcTick ==
    /\ ccNow < MaxCacheClock
    /\ ccNow' = ccNow + 1
    /\ UNCHANGED <<ccHasCache, ccMem, ccRedis, ccFetched, ccLast,
                   matchVars, groupVars, mgrVars, pipelineVars, restVars>>

CacheNext == CcCanFetch \/ CcTick

(***************************************************************************)
(* SpecManager: concurrent callers of Manager.Wait, each step of           *)
(* getLimiter taken separately; Manager.mu is a sync.RWMutex               *)
(***************************************************************************)
Callers == 1..MaxCallers

NoProc == 0

NoInstance == 0

\* the configuration of TestManager_Wait: key "test" with burst 2, and the
\* default burst 1 for any other key
ManagerKeys == {"test", "unknown"}

TestBurst == 2

UnknownBurst == 1

ManagerBurst(k) == IF k = "test" THEN TestBurst ELSE UnknownBurst

\* limiter instances are numbered in the order rate.NewLimiter makes them
Instances == 1..(2 * MaxCallers)

InstancesMade == mgCreated["test"] + mgCreated["unknown"]

\* A plausible slip: the read lock is not released before the early return
ReleaseRead_Forgotten(readers, p) == readers

\* getLimiter: "m.mu.RUnlock()"
ReleaseRead(readers, p) == readers \ {p}

\* A plausible slip: no second look at the map under the write lock
DoubleCheckHit_Skipped(lims, k) == FALSE

\* getLimiter: "if limiter, ok := m.limiters[providerKey]; ok"
DoubleCheckHit(lims, k) == lims[k] # NoInstance

ManagerIdle ==
    /\ mgPc = [p \in Callers |-> "idle"]
    /\ mgKey = [p \in Callers |-> "test"]
    /\ mgLocal = [p \in Callers |-> NoInstance]
    /\ mgReaders = {}
    /\ mgWriter = NoProc
    /\ mgLimiters = [k \in ManagerKeys |-> NoInstance]
    /\ mgTokens = [i \in Instances |-> 0]
    /\ mgCreated = [k \in ManagerKeys |-> 0]

\* NewManager: no limiter yet
ManagerInit == ManagerIdle

\* Wait(ctx, providerKey) is called
MgWait(p) ==
    /\ mgPc[p] = "idle"
    /\ \E k \in ManagerKeys : mgKey' = [mgKey EXCEPT ![p] = k]
    /\ mgPc' = [mgPc EXCEPT ![p] = "rlock"]
    /\ UNCHANGED <<mgLocal, mgReaders, mgWriter, mgLimiters, mgTokens, mgCreated>>

\* getLimiter: "m.mu.RLock()"
MgRLock(p) ==
    /\ mgPc[p] = "rlock"
    /\ mgWriter = NoProc
    /\ mgReaders' = mgReaders \cup {p}
    /\ mgPc' = [mgPc EXCEPT ![p] = "read"]
    /\ UNCHANGED <<mgKey, mgLocal, mgWriter, mgLimiters, mgTokens, mgCreated>>

\* getLimiter: "limiter, ok := m.limiters[providerKey]"
MgRead(p) ==
    /\ mgPc[p] = "read"
    /\ mgLocal' = [mgLocal EXCEPT ![p] = mgLimiters[mgKey[p]]]
    /\ mgPc' = [mgPc EXCEPT ![p] = "runlock"]
    /\ UNCHANGED <<mgKey, mgReaders, mgWriter, mgLimiters, mgTokens, mgCreated>>

\* getLimiter: "m.mu.RUnlock()", then "if ok { return limiter }"
MgRUnlock(p) ==
    /\ mgPc[p] = "runlock"
    /\ mgReaders' = ReleaseRead(mgReaders, p)
    /\ mgPc' = [mgPc EXCEPT ![p] = IF mgLocal[p] # NoInstance THEN "wait" ELSE "lock"]
    /\ UNCHANGED <<mgKey, mgLocal, mgWriter, mgLimiters, mgTokens, mgCreated>>

\* getLimiter: "m.mu.Lock()"
MgLock(p) ==
    /\ mgPc[p] = "lock"
    /\ mgWriter = NoProc
    /\ mgReaders = {}
    /\ mgWriter' = p
    /\ mgPc' = [mgPc EXCEPT ![p] = "check"]
    /\ UNCHANGED <<mgKey, mgLocal, mgReaders, mgLimiters, mgTokens, mgCreated>>

\* getLimiter under the write lock: the double-check, else rate.NewLimiter and
\* the store into the map
MgCreate(p) ==
    /\ mgPc[p] = "check"
    /\ IF DoubleCheckHit(mgLimiters, mgKey[p])
       THEN /\ mgLocal' = [mgLocal EXCEPT ![p] = mgLimiters[mgKey[p]]]
            /\ UNCHANGED <<mgLimiters, mgTokens, mgCreated>>
       ELSE /\ InstancesMade + 1 \in Instances
            /\ \E i \in {InstancesMade + 1} :
                  /\ mgLocal' = [mgLocal EXCEPT ![p] = i]
                  /\ mgLimiters' = [mgLimiters EXCEPT ![mgKey[p]] = i]
                  /\ mgTokens' = [mgTokens EXCEPT ![i] = ManagerBurst(mgKey[p])]
            /\ mgCreated' = [mgCreated EXCEPT ![mgKey[p]] = @ + 1]
    /\ mgPc' = [mgPc EXCEPT ![p] = "unlock"]
    /\ UNCHANGED <<mgKey, mgReaders, mgWriter>>

\* getLimiter: the deferred "m.mu.Unlock()"
MgUnlock(p) ==
    /\ mgPc[p] = "unlock"
    /\ mgWriter' = NoProc
    /\ mgPc' = [mgPc EXCEPT ![p] = "wait"]
    /\ UNCHANGED <<mgKey, mgLocal, mgReaders, mgLimiters, mgTokens, mgCreated>>

\* Wait: "limiter.Wait(ctx)" returns once a token of the limiter is taken
MgTake(p) ==
    /\ mgPc[p] = "wait"
    /\ mgTokens[mgLocal[p]] > 0
    /\ mgTokens' = [mgTokens EXCEPT ![mgLocal[p]] = @ - 1]
    /\ mgPc' = [mgPc EXCEPT ![p] = "done"]
    /\ UNCHANGED <<mgKey, mgLocal, mgReaders, mgWriter, mgLimiters, mgCreated>>

\* time passes: the bucket a caller is waiting on gains a token
MgRefill(p) ==
    /\ mgPc[p] = "wait"
    /\ mgTokens[mgLocal[p]] = 0
    /\ mgTokens' = [mgTokens EXCEPT ![mgLocal[p]] = 1]
    /\ UNCHANGED <<mgPc, mgKey, mgLocal, mgReaders, mgWriter, mgLimiters, mgCreated>>

\* the steps of caller p inside getLimiter
GetLimiterStep(p) ==
    /\ \/ MgRLock(p)
       \/ MgRead(p)
       \/ MgRUnlock(p)
       \/ MgLock(p)
       \/ MgCreate(p)
       \/ MgUnlock(p)
    /\ UNCHANGED <<matchVars, groupVars, cacheVars, pipelineVars, restVars>>

\* the steps of caller p outside getLimiter
WaitStep(p) ==
    /\ \/ MgWait(p)
       \/ MgTake(p)
       \/ MgRefill(p)
    /\ UNCHANGED <<matchVars, groupVars, cacheVars, pipelineVars, restVars>>

ManagerNext == \E p \in Callers : GetLimiterStep(p) \/ WaitStep(p)

(***************************************************************************)
(* The token bucket behind Manager.Wait: rate.NewLimiter(rate.Limit(RPS),  *)
(* Burst) of golang.org/x/time/rate, one caller issuing Wait calls         *)
(***************************************************************************)
MaxBucketCalls == 3

MaxBucketClock == 5

\* the refill interval 1/r of rate.Limit(r), in ticks of 50 ms
Interval(r) == 20 \div r

BucketConfigs == {[RPS |-> r, Burst |-> b] : r \in {5, 10}, b \in {1, 2}}

\* a limiter that takes the burst from nowhere but itself
NewLimiter_BurstOne(config) ==
    [interval |-> Interval(config.RPS), burst |-> 1,
     credit |-> Interval(config.RPS), last |-> 0]

\* rate.NewLimiter(rate.Limit(config.RPS), config.Burst): the bucket is full
\* at the first reservation; credit is the bucket's content in ticks of refill
NewLimiter(config) ==
    [interval |-> Interval(config.RPS), burst |-> config.Burst,
     credit |-> config.Burst * Interval(config.RPS), last |-> 0]

\* Limiter.advance: the credit at time t, capped at the burst
advance(lim, t) ==
    LET full == lim.burst * lim.interval
        c    == lim.credit + (t - lim.last)
    IN  IF c > full THEN full ELSE c

\* Limiter.reserveN(t, 1): one token is taken, on credit if need be
reserve(lim, t) ==
    LET c == advance(lim, t) - lim.interval
    IN  [lim   |-> [lim EXCEPT !.credit = c, !.last = t],
         delay |-> IF c >= 0 THEN 0 ELSE 0 - c]

BucketIdle ==
    /\ tbCfg = [RPS |-> 0, Burst |-> 0]
    /\ tbLim = [interval |-> 0, burst |-> 0, credit |-> 0, last |-> 0]
    /\ tbNow = 0
    /\ tbPc = "off"
    /\ tbCalls = <<>>

BucketInit ==
    /\ tbCfg \in BucketConfigs
    /\ tbLim = NewLimiter(tbCfg)
    /\ tbNow = 0
    /\ tbPc = "idle"
    /\ tbCalls = <<>>

\* Manager.Wait: limiter.Wait(ctx) reserves a token and returns at once when
\* it need not wait; a context already done is answered with its error
TbWait ==
    /\ tbPc = "idle"
    /\ Len(tbCalls) < MaxBucketCalls
    /\ \E ctxDone \in BOOLEAN :
         IF ctxDone
         THEN /\ tbCalls' = Append(tbCalls,
                    [issued |-> tbNow, due |-> tbNow, done |-> TRUE,
                     at |-> tbNow, err |-> TRUE])
              /\ UNCHANGED <<tbLim, tbPc>>
         ELSE \E r \in {reserve(tbLim, tbNow)} :
                /\ tbLim' = r.lim
                /\ tbCalls' = Append(tbCalls,
                      [issued |-> tbNow, due |-> tbNow + r.delay,
                       done |-> r.delay = 0, at |-> tbNow, err |-> FALSE])
                /\ tbPc' = IF r.delay = 0 THEN "idle" ELSE "sleep"
    /\ UNCHANGED <<tbCfg, tbNow>>
    /\ UNCHANGED <<matchVars, groupVars, cacheVars, mgrVars, pipelineVars, procVars, lateVars>>

\* limiter.Wait: the timer of the reservation fired
TbWake ==
    /\ tbPc = "sleep"
    /\ tbNow >= tbCalls[Len(tbCalls)].due
    /\ tbCalls' = [tbCalls EXCEPT ![Len(tbCalls)].done = TRUE,
                                  ![Len(tbCalls)].at = tbNow]
    /\ tbPc' = "idle"
    /\ UNCHANGED <<tbCfg, tbLim, tbNow>>
    /\ UNCHANGED <<matchVars, groupVars, cacheVars, mgrVars, pipelineVars, procVars, lateVars>>

\* limiter.Wait: the context is done before the timer fires; the reservation
\* is cancelled and its token given back
TbCancel ==
    /\ tbPc = "sleep"
    /\ tbNow < tbCalls[Len(tbCalls)].due
    /\ tbCalls' = [tbCalls EXCEPT ![Len(tbCalls)].done = TRUE,
                                  ![Len(tbCalls)].at = tbNow,
                                  ![Len(tbCalls)].err = TRUE]
    /\ tbLim' = [tbLim EXCEPT !.credit = @ + tbLim.interval]
    /\ tbPc' = "idle"
    /\ UNCHANGED <<tbCfg, tbNow>>
    /\ UNCHANGED <<matchVars, groupVars, cacheVars, mgrVars, pipelineVars, procVars, lateVars>>

\* time passes
TbTick ==
    /\ tbPc \in {"idle", "sleep"}
    /\ tbNow < MaxBucketClock
    /\ tbNow' = tbNow + 1
    /\ UNCHANGED <<tbCfg, tbLim, tbPc, tbCalls>>
    /\ UNCHANGED <<matchVars, groupVars, cacheVars, mgrVars, pipelineVars, procVars, lateVars>>

BucketNext ==
    \/ TbWait
    \/ TbWake
    \/ TbCancel
    \/ TbTick

(***************************************************************************)
(* processCandidate: asynq workers resolving candidates to products and    *)
(* replacing the offers of a (product, source) pair on one database        *)
(***************************************************************************)
MaxCandidates == 2

Workers == {1, 2}

\* a *string: Nil is the nil pointer, <<s>> a pointer to s
Nil == <<>>

NonEmpty(ptr) == ptr # Nil /\ ptr[1] # ""

\* stringPtr of providers/demo.go: a pointer to the string, empty or not
stringPtr(str) == <<str>>

\* stringPtr of the providers' helper file: nil for the empty string
stringPtrOrNil(str) == IF str = "" THEN Nil ELSE <<str>>

\* what a provider's Search puts in an optional field, say
\* Brand: stringPtr(brand) with brand empty or not, under either helper
FieldValues ==
    {stringPtr(str) : str \in {"", "x"}} \cup {stringPtrOrNil(str) : str \in {"", "x"}}

Fields == {"brand", "model", "image"}

Sellers == {"A", "B"}

\* getIdentifierType: the identifier type follows from the source name alone
getIdentifierType(sourceName) ==
    CASE sourceName = "walmart" -> "itemId"
      [] sourceName = "amazon"  -> "ASIN"
      [] OTHER                  -> ""

\* candidates that differ in source, identifier and title
IdentityCandidates ==
    [source : {"walmart", "amazon", "demo"},
     Identifier : {<<"123">>, <<"456">>},
     Title : {"A", "B"},
     brand : {Nil}, model : {Nil}, image : {Nil}]

\* candidates of one source and title, for the offers of one pair
OfferCandidates ==
    [source : {"demo"}, Identifier : {Nil}, Title : {"A"},
     brand : {Nil}, model : {Nil}, image : {Nil}]

\* candidates that differ in the optional fields
FieldCandidates ==
    [source : {"demo"}, Identifier : {Nil}, Title : {"A"},
     brand : FieldValues, model : FieldValues, image : FieldValues]

Batches == {IdentityCandidates, FieldCandidates, OfferCandidates}

\* what FetchOffers may return for a candidate of the batch
Answers(batch) == IF batch = OfferCandidates THEN SUBSET Sellers ELSE {{"A"}}

NoCandidate ==
    [source |-> "", Identifier |-> Nil, Title |-> "",
     brand |-> Nil, model |-> Nil, image |-> Nil]

NoProduct == [id |-> 0, title |-> "", brand |-> Nil, model |-> Nil, image |-> Nil]

NoCycle ==
    [done |-> FALSE, product |-> 0, source |-> "", identifier |-> Nil,
     returned |-> {}, stored |-> {}, overlapped |-> FALSE]

NoFailure ==
    [done |-> FALSE, product |-> 0, source |-> "", before |-> {}, after |-> {},
     overlapped |-> FALSE]

\* the row of a product as a query scans it into models.Product
Row(i) ==
    [id |-> i, title |-> prProducts[i].title, brand |-> prProducts[i].brand,
     model |-> prProducts[i].model, image |-> prProducts[i].image]

\* the candidate carries an identifier the processor can type
HasIdentifier(c) ==
    /\ c.Identifier # Nil
    /\ c.Identifier[1] # ""
    /\ getIdentifierType(c.source) # ""

\* the sellers of the offers stored for (product, source)
Stored(offers, product, source) ==
    {o.seller : o \in {x \in offers : x.product = product /\ x.source = source}}

\* the fields of a row that hold a non-empty value
Held(row) == {f \in Fields : NonEmpty(row[f])}

\* the workers in the middle of replacing the offers of (product, source)
InCycle(product, source) ==
    {w \in Workers : /\ prPc[w] \in {"fetch", "upsert"}
                     /\ prProduct[w].id = product
                     /\ prCand[w].source = source}

ProcessorIdle ==
    /\ prProducts = <<>>
    /\ prIdents = {}
    /\ prOffers = {}
    /\ prPc = [w \in Workers |-> "off"]
    /\ prCand = [w \in Workers |-> NoCandidate]
    /\ prProduct = [w \in Workers |-> NoProduct]
    /\ prFetched = [w \in Workers |-> {}]
    /\ prCount = 0
    /\ prBatch = {}
    /\ prResolved = {}
    /\ prHad = <<>>
    /\ prPatched = {}
    /\ prOverlap = [w \in Workers |-> FALSE]
    /\ prLast = NoCycle
    /\ prBefore = [w \in Workers |-> {}]
    /\ prFailed = NoFailure

ProcessorInit ==
    /\ prProducts = <<>>
    /\ prIdents = {}
    /\ prOffers = {}
    /\ prPc = [w \in Workers |-> "idle"]
    /\ prCand = [w \in Workers |-> NoCandidate]
    /\ prProduct = [w \in Workers |-> NoProduct]
    /\ prFetched = [w \in Workers |-> {}]
    /\ prCount = 0
    /\ prBatch \in Batches
    /\ prResolved = {}
    /\ prHad = <<>>
    /\ prPatched = {}
    /\ prOverlap = [w \in Workers |-> FALSE]
    /\ prLast = NoCycle
    /\ prBefore = [w \in Workers |-> {}]
    /\ prFailed = NoFailure

ProcFrame ==
    <<matchVars, groupVars, cacheVars, mgrVars, pipelineVars, bucketVars, prBatch,
      lateVars>>

\* fetchFromProvider hands a candidate of the provider's search to processCandidate
PrBegin(w) ==
    /\ prPc[w] = "idle"
    /\ prCount < MaxCandidates
    /\ \E c \in prBatch : prCand' = [prCand EXCEPT ![w] = c]
    /\ prPc' = [prPc EXCEPT ![w] = "ident"]
    /\ prCount' = prCount + 1
    /\ UNCHANGED <<prProducts, prIdents, prOffers, prProduct, prFetched, prResolved,
                   prHad, prPatched, prOverlap, prLast,
                   prBefore, prFailed>>
    /\ UNCHANGED ProcFrame

\* processCandidate: the lookup by identifier (FindByTypeAndValue)
PrFindByIdentifier(w) ==
    /\ prPc[w] = "ident"
    /\ LET c    == prCand[w]
           rows == {r \in prIdents : /\ HasIdentifier(c)
                                     /\ r.type = getIdentifierType(c.source)
                                     /\ r.value = c.Identifier[1]}
       IN  IF rows = {}
           THEN UNCHANGED prProduct
           ELSE \E r \in rows : prProduct' = [prProduct EXCEPT ![w] = Row(r.product)]
    /\ prPc' = [prPc EXCEPT ![w] = "title"]
    /\ UNCHANGED <<prProducts, prIdents, prOffers, prCand, prFetched, prCount,
                   prResolved, prHad, prPatched, prOverlap, prLast,
                   prBefore, prFailed>>
    /\ UNCHANGED ProcFrame

\* processCandidate: the fallback to the exact title (FindByTitle, LIMIT 1
\* without an order: any row of that title)
PrFindByTitle(w) ==
    /\ prPc[w] = "title"
    /\ LET rows == {i \in 1..Len(prProducts) : prProducts[i].title = prCand[w].Title}
       IN  IF prProduct[w].id # 0
           THEN /\ UNCHANGED prProduct
                /\ prPc' = [prPc EXCEPT ![w] = "update"]
           ELSE IF rows = {}
                THEN /\ UNCHANGED prProduct
                     /\ prPc' = [prPc EXCEPT ![w] = "create"]
                ELSE /\ \E i \in rows : prProduct' = [prProduct EXCEPT ![w] = Row(i)]
                     /\ prPc' = [prPc EXCEPT ![w] = "update"]
    /\ UNCHANGED <<prProducts, prIdents, prOffers, prCand, prFetched, prCount,
                   prResolved, prHad, prPatched, prOverlap, prLast,
                   prBefore, prFailed>>
    /\ UNCHANGED ProcFrame

\* processCandidate: no product found, one is created from the candidate
PrCreate(w) ==
    /\ prPc[w] = "create"
    /\ LET c   == prCand[w]
           id  == Len(prProducts) + 1
           row == [title |-> c.Title, brand |-> c.brand, model |-> c.model,
                   image |-> c.image]
       IN  /\ prProducts' = Append(prProducts, row)
           /\ prHad' = Append(prHad, Held(row))
           /\ prProduct' = [prProduct EXCEPT ![w] =
                               [id |-> id, title |-> row.title, brand |-> row.brand,
                                model |-> row.model, image |-> row.image]]
           /\ prResolved' = prResolved \cup
                  {[source |-> c.source, Identifier |-> c.Identifier,
                    Title |-> c.Title, product |-> id]}
    /\ prPc' = [prPc EXCEPT ![w] = "identifier"]
    /\ UNCHANGED <<prIdents, prOffers, prCand, prFetched, prCount, prPatched,
                   prOverlap, prLast,
                   prBefore, prFailed>>
    /\ UNCHANGED ProcFrame

\* processCandidate: the identifier of the new product is saved; the insert
\* fails on UNIQUE (type, value) and the failure is only logged
PrSaveIdentifier(w) ==
    /\ prPc[w] = "identifier"
    /\ LET c == prCand[w]
       IN  IF /\ HasIdentifier(c)
              /\ ~\E r \in prIdents : /\ r.type = getIdentifierType(c.source)
                                      /\ r.value = c.Identifier[1]
           THEN prIdents' = prIdents \cup
                    {[type |-> getIdentifierType(c.source), value |-> c.Identifier[1],
                      product |-> prProduct[w].id]}
           ELSE UNCHANGED prIdents
    /\ prPc' = [prPc EXCEPT ![w] = "delete"]
    /\ UNCHANGED <<prProducts, prOffers, prCand, prProduct, prFetched, prCount,
                   prResolved, prHad, prPatched, prOverlap, prLast,
                   prBefore, prFailed>>
    /\ UNCHANGED ProcFrame

\* a field of the product found, patched from the candidate when the
\* candidate's pointer is not nil
Patch(old, new) == IF new # Nil THEN new ELSE old

\* processCandidate: a product was found; its fields are patched from the
\* candidate and the whole row is written back (ProductRepository.Update)
PrUpdate(w) ==
    /\ prPc[w] = "update"
    /\ LET c   == prCand[w]
           p   == prProduct[w]
           row == [title |-> p.title, brand |-> Patch(p.brand, c.brand),
                   model |-> Patch(p.model, c.model),
                   image |-> Patch(p.image, c.image)]
       IN  /\ prProducts' = [prProducts EXCEPT ![p.id] = row]
           /\ prHad' = [prHad EXCEPT ![p.id] = @ \cup Held(row)]
           /\ prPatched' = prPatched \cup
                  {[field |-> f, value |-> c[f]] :
                      f \in {g \in Fields : row[g] # prProducts[p.id][g]}}
           /\ prProduct' = [prProduct EXCEPT ![w] =
                               [id |-> p.id, title |-> row.title, brand |-> row.brand,
                                model |-> row.model, image |-> row.image]]
           /\ prResolved' = prResolved \cup
                  {[source |-> c.source, Identifier |-> c.Identifier,
                    Title |-> c.Title, product |-> p.id]}
    /\ prPc' = [prPc EXCEPT ![w] = "delete"]
    /\ UNCHANGED <<prIdents, prOffers, prCand, prFetched, prCount, prOverlap, prLast,
                   prBefore, prFailed>>
    /\ UNCHANGED ProcFrame

\* the workers other than w that are replacing the offers of w's pair get to
\* know of w, and w of them
Overlaps(w) ==
    LET others == InCycle(prProduct[w].id, prCand[w].source) \ {w}
    IN  [v \in Workers |->
            IF v \in others \/ (v = w /\ others # {}) THEN TRUE ELSE prOverlap[v]]

\* processCandidate: DeleteByProductIDAndSource
PrDeleteOffers(w) ==
    /\ prPc[w] = "delete"
    /\ prOffers' = {o \in prOffers : ~(/\ o.product = prProduct[w].id
                                       /\ o.source = prCand[w].source)}
    /\ prOverlap' = Overlaps(w)
    /\ prBefore' = [prBefore EXCEPT ![w] =
                        Stored(prOffers, prProduct[w].id, prCand[w].source)]
    /\ prPc' = [prPc EXCEPT ![w] = "fetch"]
    /\ UNCHANGED <<prProducts, prIdents, prCand, prProduct, prFetched, prCount,
                   prResolved, prHad, prPatched, prLast, prFailed>>
    /\ UNCHANGED ProcFrame

\* processCandidate: provider.FetchOffers answers with offers of the product
\* under the provider's own source name, or fails and the candidate is given up
PrFetchOffers(w) ==
    /\ prPc[w] = "fetch"
    /\ \/ \E sellers \in Answers(prBatch) :
            /\ prFetched' = [prFetched EXCEPT ![w] = sellers]
            /\ prPc' = [prPc EXCEPT ![w] = "upsert"]
            /\ UNCHANGED <<prCand, prProduct, prOverlap, prBefore, prFailed>>
       \/ /\ prPc' = [prPc EXCEPT ![w] = "idle"]
          /\ prFailed' = [done |-> TRUE, product |-> prProduct[w].id,
                          source |-> prCand[w].source, before |-> prBefore[w],
                          after |-> Stored(prOffers, prProduct[w].id, prCand[w].source),
                          overlapped |-> Overlaps(w)[w]]
          /\ prCand' = [prCand EXCEPT ![w] = NoCandidate]
          /\ prProduct' = [prProduct EXCEPT ![w] = NoProduct]
          /\ prOverlap' = [prOverlap EXCEPT ![w] = FALSE]
          /\ prBefore' = [prBefore EXCEPT ![w] = {}]
          /\ UNCHANGED prFetched
    /\ UNCHANGED <<prProducts, prIdents, prOffers, prCount,
                   prResolved, prHad, prPatched, prLast>>
    /\ UNCHANGED ProcFrame

\* processCandidate: every offer returned is upserted, and the cycle is over
PrUpsertOffers(w) ==
    /\ prPc[w] = "upsert"
    /\ \E over \in {Overlaps(w)} :
       \E offers \in {prOffers \cup
                        {[product |-> prProduct[w].id, source |-> prCand[w].source,
                          seller |-> s] : s \in prFetched[w]}} :
         /\ prOffers' = offers
         /\ prOverlap' = [over EXCEPT ![w] = FALSE]
         /\ prLast' = [done |-> TRUE, product |-> prProduct[w].id,
                       source |-> prCand[w].source,
                       identifier |-> prCand[w].Identifier, returned |-> prFetched[w],
                       stored |-> Stored(offers, prProduct[w].id, prCand[w].source),
                       overlapped |-> over[w]]
    /\ prPc' = [prPc EXCEPT ![w] = "idle"]
    /\ prCand' = [prCand EXCEPT ![w] = NoCandidate]
    /\ prProduct' = [prProduct EXCEPT ![w] = NoProduct]
    /\ prFetched' = [prFetched EXCEPT ![w] = {}]
    /\ prBefore' = [prBefore EXCEPT ![w] = {}]
    /\ UNCHANGED <<prProducts, prIdents, prCount, prResolved, prHad, prPatched, prFailed>>
    /\ UNCHANGED ProcFrame

ProcessCandidate(w) ==
    \/ PrBegin(w)
    \/ PrFindByIdentifier(w)
    \/ PrFindByTitle(w)
    \/ PrCreate(w)
    \/ PrSaveIdentifier(w)
    \/ PrUpdate(w)
    \/ PrDeleteOffers(w)
    \/ PrFetchOffers(w)
    \/ PrUpsertOffers(w)

ProcessorNext == \E w \in Workers : ProcessCandidate(w)

(***************************************************************************)
(* OfferRepository.Upsert: INSERT ... ON CONFLICT (product_id, source,     *)
(* seller, COALESCE(url, '')) DO UPDATE on the offers table                *)
(***************************************************************************)
MaxUpserts == 3

\* the offers a caller may hand to Upsert: url is a *string, ID uuid.Nil
OfferInputs ==
    [product : {1}, source : {"s"}, seller : {"A", "B"},
     url : {Nil, <<"">>, <<"u">>}, price : {1, 2}]

\* COALESCE(url, '')
Coalesce(u) == IF u = Nil THEN "" ELSE u[1]

\* a conflict target that leaves the url out
ConflictKey_NoURL(o) == <<o.product, o.source, o.seller>>

\* the conflict target of the statement, which is the key of idx_offers_unique
ConflictKey(o) == <<o.product, o.source, o.seller, Coalesce(o.url)>>

\* the table after the statement: the row of the same key takes the
\* EXCLUDED values of the columns that DO UPDATE SET lists (the price and the
\* like, neither id nor url); failing such a row, the offer is inserted
UpsertRows(rows, o, id) ==
    IF \E r \in rows : ConflictKey(r) = ConflictKey(o)
    THEN {IF ConflictKey(r) = ConflictKey(o) THEN [r EXCEPT !.price = o.price] ELSE r :
             r \in rows}
    ELSE rows \cup {[id |-> id, product |-> o.product, source |-> o.source,
                     seller |-> o.seller, url |-> o.url, price |-> o.price]}

NoUpsert ==
    [called |-> FALSE,
     offer |-> [product |-> 0, source |-> "", seller |-> "", url |-> Nil, price |-> 0],
     before |-> {}, returned |-> 0]

OffersIdle ==
    /\ ofRows = {}
    /\ ofNextId = 0
    /\ ofCall = NoUpsert

OffersInit ==
    /\ ofRows = {}
    /\ ofNextId = 1
    /\ ofCall = NoUpsert

\* OfferRepository.Upsert(offer) with offer.ID unset: a fresh id is drawn,
\* the statement runs, and RETURNING id is scanned into offer.ID
OfUpsert ==
    /\ ofNextId >= 1
    /\ ofNextId <= MaxUpserts
    /\ \E o \in OfferInputs :
       \E rows \in {UpsertRows(ofRows, o, ofNextId)} :
         /\ ofRows' = rows
         /\ ofCall' = [called |-> TRUE, offer |-> o, before |-> ofRows,
                       returned |-> (CHOOSE r \in rows :
                                        ConflictKey(r) = ConflictKey(o)).id]
    /\ ofNextId' = ofNextId + 1
    /\ UNCHANGED <<earlyVars, shipVars, jobVars>>

(***************************************************************************)
(* shipping.Calculator, and the repricing of the offers of a fetch cycle   *)
(***************************************************************************)
\* prices in cents around the brackets of the table
Prices == {0, 50, 1999, 2000, 3999, 4999, 5000, 9999}

\* amounts in cents handed to ConvertToJPY
Amounts == {1, 33, 100, 1000}

ShippingConfigs ==
    [Mode : {"TABLE", "FLAT"}, FeePercent : {0, 3}, FXUSDJPY : {150}]

\* int(math.Round(x)) of a non-negative x given exactly in hundredths. The
\* code computes x in float64, whose error is far below a hundredth for
\* amounts of the size of a price column, so x rounds as its exact value
\* does, unless that is an exact half: then the float64 result lies on
\* either side, which `up` settles
RoundHundredths(n, up) ==
    LET q == n \div 100
        r == n % 100
    IN  IF r > 50 \/ (r = 50 /\ up) THEN q + 1 ELSE q

\* a table whose brackets take their upper limit in
calculateByTable_Inclusive(priceCents) ==
    IF priceCents <= 2000 THEN 999
    ELSE IF priceCents <= 5000 THEN 1499
    ELSE 1999

\* calculateByTable, in cents: priceUSD < 20.0, < 50.0, else
calculateByTable(priceCents) ==
    IF priceCents < 2000 THEN 999
    ELSE IF priceCents < 5000 THEN 1499
    ELSE 1999

\* CalculateShipping: the base of the mode plus FeePercent of the price,
\* in hundredths of a cent before rounding
CalculateShipping(config, halfUp, priceCents) ==
    LET base == IF config.Mode = "TABLE" THEN calculateByTable(priceCents) ELSE 1499
    IN  RoundHundredths(base * 100 + priceCents * config.FeePercent,
                        priceCents \in halfUp)

CalculateTotal(config, halfUp, priceCents) ==
    priceCents + CalculateShipping(config, halfUp, priceCents)

\* ConvertToJPY: usdCents / 100 * FXUSDJPY, rounded
ConvertToJPY(config, halfUp, usdCents) ==
    RoundHundredths(usdCents * config.FXUSDJPY, usdCents \in halfUp)

\* the prices whose exact shipping ends on a half cent, and the amounts
\* whose exact conversion ends on a half yen
ShipHalves(config) ==
    {x \in Prices : (calculateByTable(x) * 100 + x * config.FeePercent) % 100 = 50}

JpyHalves(config) == {x \in Amounts : (x * config.FXUSDJPY) % 100 = 50}

\* what a provider's FetchOffers reports for an offer
ProviderOffers == [price : Prices, shipping : {0, 999}, total : {0, 999}]

\* a cycle that stores the amounts the provider reported
Reprice_KeepReported(config, halfUp, o) ==
    [price |-> o.price, shipping |-> o.shipping, total |-> o.total]

\* processCandidate: the amounts of an offer as they are upserted
Reprice(config, halfUp, o) ==
    [price |-> o.price,
     shipping |-> CalculateShipping(config, halfUp, o.price),
     total |-> CalculateTotal(config, halfUp, o.price)]

NoRow ==
    [done |-> FALSE, reported |-> [price |-> 0, shipping |-> 0, total |-> 0],
     price |-> 0, shipping |-> 0, total |-> 0]

NoJPY == [done |-> FALSE, cents |-> 0, jpy |-> 0]

ShippingIdle ==
    /\ shCfg = [Mode |-> "", FeePercent |-> 0, FXUSDJPY |-> 0]
    /\ shShipUp = {}
    /\ shJpyUp = {}
    /\ shRow = NoRow
    /\ shJPY = NoJPY

ShippingInit ==
    /\ shCfg \in ShippingConfigs
    /\ shShipUp \in SUBSET ShipHalves(shCfg)
    /\ shJpyUp \in SUBSET JpyHalves(shCfg)
    /\ shRow = NoRow
    /\ shJPY = NoJPY

\* processCandidate: an offer of the cycle is repriced and upserted
ShPersist ==
    /\ shCfg.Mode # ""
    /\ \E o \in ProviderOffers :
       \E r \in {Reprice(shCfg, shShipUp, o)} :
         shRow' = [done |-> TRUE, reported |-> o, price |-> r.price,
                   shipping |-> r.shipping, total |-> r.total]
    /\ UNCHANGED <<shCfg, shShipUp, shJpyUp, shJPY>>
    /\ UNCHANGED <<earlyVars, offerVars, jobVars>>

\* a caller converts an amount for display
ShConvert ==
    /\ shCfg.Mode # ""
    /\ \E c \in Amounts :
         shJPY' = [done |-> TRUE, cents |-> c, jpy |-> ConvertToJPY(shCfg, shJpyUp, c)]
    /\ UNCHANGED <<shCfg, shShipUp, shJpyUp, shRow>>
    /\ UNCHANGED <<earlyVars, offerVars, jobVars>>

ShippingNext == ShPersist \/ ShConvert

(***************************************************************************)
(* Processor.HandleFetchPrices and fetchFromProvider: one job              *)
(***************************************************************************)
MaxReturned == 6
MaxRegistered == 2
maxProducts == 5

SourceNames == {"demo", "public_html", "live", "walmart", "other"}

\* sizes of the candidate list a Search returns
ReturnedCounts == {0, 1, MaxReturned}

\* what a Search returns: an error, a rate-limit error naming 429, or a list
SearchResults ==
    {[err |-> e, n |-> 0] : e \in {"error", "429"}}
        \cup {[err |-> "", n |-> k] : k \in ReturnedCounts}

\* the predefined queries of fetchFromProvider
Queries(sourceName) ==
    CASE sourceName = "demo" -> <<"headphones", "watch", "cable">>
      [] sourceName = "public_html" -> <<"">>
      [] sourceName = "live" -> <<"headphones", "watch", "laptop">>
      [] sourceName \in {"walmart", "amazon"} ->
            <<"headphones", "laptop", "smartphone", "tablet", "watch",
              "minecraft", "game", "toy", "book">>
      [] OTHER -> <<>>

\* the branches whose candidate loop breaks at maxProducts
Limited(sourceName) == sourceName \in {"live", "walmart", "amazon"}

\* the branch that waits between its queries and after a 429
Paced(sourceName) == sourceName \in {"walmart", "amazon"}

\* Manager.List: the registered names in the order of a map iteration
List(registered) ==
    {q \in [1..Cardinality(registered) -> registered] :
        \A i, j \in 1..Cardinality(registered) : q[i] = q[j] => i = j}

\* a loop that stops at the first candidate whose processing failed
loopContinues_StopOnError(ok) == ok

\* the candidate loop goes on whatever processCandidate returned
loopContinues(ok) == TRUE

NoLoop == [source |-> "", returned |-> 0, processed |-> 0, failAt |-> 0]

JobIdle ==
    /\ jbPayload = [ok |-> FALSE, Source |-> ""]
    /\ jbRegistered = {}
    /\ jbSources = <<>>
    /\ jbPc = "idle"
    /\ jbSrc = 0
    /\ jbQ = 0
    /\ jbReturned = 0
    /\ jbI = 0
    /\ jbCtxDone = FALSE
    /\ jbRet = ""
    /\ jbSearched = 0
    /\ jbProcessed = 0
    /\ jbFailAt = 0
    /\ jbLast = NoLoop
    /\ jbRuns = <<>>

JobInit ==
    /\ jbPayload \in [ok : BOOLEAN, Source : SourceNames \cup {"all"}]
    /\ jbRegistered \in {r \in SUBSET (SourceNames \ {"other"}) :
                            Cardinality(r) <= MaxRegistered}
    /\ jbSources = <<>>
    /\ jbPc = "start"
    /\ jbSrc = 0
    /\ jbQ = 0
    /\ jbReturned = 0
    /\ jbI = 0
    /\ jbCtxDone = FALSE
    /\ jbRet = ""
    /\ jbSearched = 0
    /\ jbProcessed = 0
    /\ jbFailAt = 0
    /\ jbLast = NoLoop
    /\ jbRuns = <<>>

JobFrame == <<earlyVars, offerVars, shipVars>>

\* the current source has returned: record it and go to the next one
EndRun(found, err) ==
    /\ jbRuns' = Append(jbRuns, [source |-> jbSources[jbSrc], found |-> found,
                                 searched |-> jbSearched, err |-> err])
    /\ jbSrc' = jbSrc + 1
    /\ jbPc' = "source"
    /\ jbQ' = 0
    /\ jbSearched' = 0

\* HandleFetchPrices up to its loop: unmarshal, choose the sources
JbBegin ==
    /\ jbPc = "start"
    /\ IF ~jbPayload.ok
       THEN /\ jbRet' = "error"
            /\ jbPc' = "done"
            /\ UNCHANGED <<jbSources, jbSrc>>
       ELSE /\ IF jbPayload.Source = "all"
               THEN jbSources' \in List(jbRegistered)
               ELSE jbSources' = <<jbPayload.Source>>
            /\ jbSrc' = 1
            /\ jbPc' = "source"
            /\ UNCHANGED jbRet
    /\ UNCHANGED <<jbPayload, jbRegistered, jbQ, jbReturned, jbI, jbCtxDone,
                   jbSearched, jbProcessed, jbFailAt, jbLast, jbRuns>>
    /\ UNCHANGED JobFrame

\* HandleFetchPrices: the head of the loop over the sources
JbSource ==
    /\ jbPc = "source"
    /\ IF jbSrc > Len(jbSources)
       THEN /\ jbRet' = "nil"
            /\ jbPc' = "done"
            /\ UNCHANGED <<jbSrc, jbQ, jbSearched, jbRuns>>
       ELSE IF jbSources[jbSrc] \notin jbRegistered
       THEN /\ EndRun(FALSE, FALSE)
            /\ UNCHANGED jbRet
       ELSE /\ jbPc' = "query"
            /\ jbQ' = 1
            /\ jbSearched' = 0
            /\ UNCHANGED <<jbRet, jbSrc, jbRuns>>
    /\ UNCHANGED <<jbPayload, jbRegistered, jbSources, jbReturned, jbI, jbCtxDone,
                   jbProcessed, jbFailAt, jbLast>>
    /\ UNCHANGED JobFrame

\* fetchFromProvider: the head of the loop over the queries, with the wait
\* between the queries of a paced source, and the Search
JbQuery ==
    /\ jbPc = "query"
    /\ LET sourceName == jbSources[jbSrc] IN
       IF jbQ > Len(Queries(sourceName))
       THEN /\ EndRun(TRUE, FALSE)
            /\ UNCHANGED <<jbReturned, jbI, jbProcessed, jbFailAt>>
       ELSE IF Paced(sourceName) /\ jbQ > 1 /\ jbCtxDone
       THEN /\ EndRun(TRUE, TRUE)
            /\ UNCHANGED <<jbReturned, jbI, jbProcessed, jbFailAt>>
       ELSE \E res \in SearchResults :
            IF res.err # ""
            THEN IF sourceName = "public_html"
                 THEN /\ jbRuns' = Append(jbRuns, [source |-> sourceName, found |-> TRUE,
                                                   searched |-> jbSearched + 1, err |-> TRUE])
                      /\ jbSrc' = jbSrc + 1
                      /\ jbPc' = "source"
                      /\ jbQ' = 0
                      /\ jbSearched' = 0
                      /\ UNCHANGED <<jbReturned, jbI, jbProcessed, jbFailAt>>
                 ELSE /\ jbSearched' = jbSearched + 1
                      /\ IF Paced(sourceName) /\ res.err = "429"
                         THEN jbPc' = "backoff" /\ jbQ' = jbQ
                         ELSE jbPc' = "query" /\ jbQ' = jbQ + 1
                      /\ UNCHANGED <<jbReturned, jbI, jbProcessed, jbFailAt, jbSrc, jbRuns>>
            ELSE /\ jbSearched' = jbSearched + 1
                 /\ jbReturned' = res.n
                 /\ jbI' = 0
                 /\ jbProcessed' = 0
                 /\ jbFailAt' = 0
                 /\ jbPc' = "cand"
                 /\ UNCHANGED <<jbQ, jbSrc, jbRuns>>
    /\ UNCHANGED <<jbPayload, jbRegistered, jbSources, jbCtxDone, jbRet, jbLast>>
    /\ UNCHANGED JobFrame

\* fetchFromProvider: the five seconds after a rate-limited Search
JbBackoff ==
    /\ jbPc = "backoff"
    /\ IF jbCtxDone
       THEN EndRun(TRUE, TRUE)
       ELSE /\ jbPc' = "query"
            /\ jbQ' = jbQ + 1
            /\ UNCHANGED <<jbSrc, jbSearched, jbRuns>>
    /\ UNCHANGED <<jbPayload, jbRegistered, jbSources, jbReturned, jbI, jbCtxDone,
                   jbRet, jbProcessed, jbFailAt, jbLast>>
    /\ UNCHANGED JobFrame

\* fetchFromProvider: one turn of the loop over the candidates
JbCandidate ==
    /\ jbPc = "cand"
    /\ LET sourceName == jbSources[jbSrc] IN
       IF jbI >= jbReturned \/ (Limited(sourceName) /\ jbI >= maxProducts)
       THEN /\ jbLast' = [source |-> sourceName, returned |-> jbReturned,
                          processed |-> jbProcessed, failAt |-> jbFailAt]
            /\ jbPc' = "query"
            /\ jbQ' = jbQ + 1
            /\ UNCHANGED <<jbI, jbProcessed, jbFailAt>>
       ELSE \E ok \in BOOLEAN :
            /\ jbProcessed' = jbProcessed + 1
            /\ jbFailAt' = IF ~ok /\ jbFailAt = 0 THEN jbI + 1 ELSE jbFailAt
            /\ jbI' = IF loopContinues(ok) THEN jbI + 1 ELSE jbReturned
            /\ UNCHANGED <<jbLast, jbPc, jbQ>>
    /\ UNCHANGED <<jbPayload, jbRegistered, jbSources, jbSrc, jbReturned, jbCtxDone,
                   jbRet, jbSearched, jbRuns>>
    /\ UNCHANGED JobFrame

\* the job's context is cancelled (timeout or shutdown of the worker)
JbCancel ==
    /\ jbPc \in {"source", "query", "backoff", "cand"}
    /\ ~jbCtxDone
    /\ jbCtxDone' = TRUE
    /\ UNCHANGED <<jbPayload, jbRegistered, jbSources, jbPc, jbSrc, jbQ, jbReturned, jbI,
                   jbRet, jbSearched, jbProcessed, jbFailAt, jbLast, jbRuns>>
    /\ UNCHANGED JobFrame

JobNext == JbBegin \/ JbSource \/ JbQuery \/ JbBackoff \/ JbCandidate \/ JbCancel

(***************************************************************************)
(* Specifications                                                          *)
(***************************************************************************)
\* the models other than the fetch pipeline, not started
PipelineIdle == RobotsIdle /\ BackoffIdle /\ ClientIdle

LateIdle == OffersIdle /\ ShippingIdle /\ JobIdle

RestIdle == BucketIdle /\ ProcessorIdle /\ LateIdle

EarlyIdle ==
    PipelineIdle /\ MatchIdle /\ GroupsIdle /\ CacheIdle /\ ManagerIdle /\ BucketIdle
    /\ ProcessorIdle

OtherIdle == MatchIdle /\ GroupsIdle /\ CacheIdle /\ ManagerIdle /\ RestIdle

Next ==
    \/ Get
    \/ RobotsCheck
    \/ Cancel
    \/ WaitAcquire
    \/ WaitCancelled
    \/ Refill
    \/ Attempt
    \/ BackoffElapsed
    \/ BackoffCancelled

\* A client about to serve a call of Get
Init == ClientInit /\ RobotsIdle /\ BackoffIdle /\ OtherIdle

Spec == Init /\ [][Next]_vars

\* exponentialBackoff on the attempt indices 0, 1, 2, ...
InitBackoff == BackoffInit /\ RobotsIdle /\ ClientIdle /\ OtherIdle

SpecBackoff == InitBackoff /\ [][BoRetry]_vars

\* checkPathAgainstRule on a drawn rule and path
InitRobots == RobotsInit /\ BackoffIdle /\ ClientIdle /\ OtherIdle

SpecRobots == InitRobots /\ [][RbCheckRule]_vars

\* The steps of the caller inside Get; timers fire, buckets refill and the
\* transport answers within its timeout, so a step that stays possible is taken
Step ==
    \/ RobotsCheck
    \/ WaitAcquire
    \/ WaitCancelled
    \/ Refill
    \/ Attempt
    \/ BackoffElapsed
    \/ BackoffCancelled

FairSpec == Spec /\ WF_vars(Step)

\* pathMatches on a drawn path and pattern
InitMatch == MatchInit /\ PipelineIdle /\ GroupsIdle /\ CacheIdle /\ ManagerIdle /\ RestIdle

SpecMatch == InitMatch /\ [][PmMatch]_vars

\* checkPath on a drawn list of groups, path and user agent
InitGroups == GroupsInit /\ PipelineIdle /\ MatchIdle /\ CacheIdle /\ ManagerIdle /\ RestIdle

SpecGroups == InitGroups /\ [][GsCheckPath]_vars

\* a fresh Checker serving CanFetch calls
InitCache == CacheInit /\ PipelineIdle /\ MatchIdle /\ GroupsIdle /\ ManagerIdle /\ RestIdle

SpecCache == InitCache /\ [][CacheNext]_vars

\* a new Manager and its concurrent callers
InitManager == ManagerInit /\ PipelineIdle /\ MatchIdle /\ GroupsIdle /\ CacheIdle /\ RestIdle

SpecManager == InitManager /\ [][ManagerNext]_vars

\* A caller inside getLimiter is scheduled and sync.RWMutex hands the lock to
\* a caller for which it stays free; nothing is assumed about limiter.Wait
FairSpecManager ==
    SpecManager /\ \A p \in Callers : WF_vars(GetLimiterStep(p))

\* a fresh limiter and one caller of Manager.Wait on its key
InitBucket ==
    BucketInit /\ PipelineIdle /\ MatchIdle /\ GroupsIdle /\ CacheIdle /\ ManagerIdle
    /\ ProcessorIdle /\ LateIdle

SpecBucket == InitBucket /\ [][BucketNext]_vars

\* an empty database and the workers of the job server
InitProcessor ==
    ProcessorInit /\ PipelineIdle /\ MatchIdle /\ GroupsIdle /\ CacheIdle /\ ManagerIdle
    /\ BucketIdle /\ LateIdle

SpecProcessor == InitProcessor /\ [][ProcessorNext]_vars

\* an empty offers table and a caller of Upsert
InitOffers == OffersInit /\ EarlyIdle /\ ShippingIdle /\ JobIdle

SpecOffers == InitOffers /\ [][OfUpsert]_vars

\* a calculator of some configuration
InitShipping == ShippingInit /\ EarlyIdle /\ OffersIdle /\ JobIdle

SpecShipping == InitShipping /\ [][ShippingNext]_vars

\* one job of some payload against some registry
InitJob == JobInit /\ EarlyIdle /\ OffersIdle /\ ShippingIdle

SpecJob == InitJob /\ [][JobNext]_vars

(***************************************************************************)
(* Claims                                                                  *)
(***************************************************************************)
AuditsOfCall == Len(auditLog) - auditMark

LastAudit == auditLog[Len(auditLog)]

External == url.valid /\ IsExternalURL(url).external

Internal == url.valid /\ ~IsExternalURL(url).external

Transient(o) == o.kind = "err" \/ o.status = 429 \/ (o.status >= 500 /\ o.status < 600)

\* C1: every call of Get that has returned emitted exactly one audit entry,
\* whatever the outcome.
C1_ExactlyOneAudit == ret.done => AuditsOfCall = 1

\* C2: with AllowLiveFetch false, a Get on an external URL has returned an
\* error and made no network call: no robots.txt request, no CanFetch, no
\* Wait, no token taken, no GET to the target.
C2_NoNetworkWhenLiveFetchDisabled ==
    (pc # "idle" /\ External /\ ~cfg.AllowLiveFetch) =>
        /\ pc = "done"
        /\ ret.done
        /\ ret.err # ""
        /\ net = NoNet
        /\ outcomes.tries = 0

C2_Witness ==
    /\ pc = "done"
    /\ External
    /\ ~cfg.AllowLiveFetch
    /\ ret.err = "live_fetch_disabled"

\* C3: a Get on a URL classified internal is never rejected by policy, for
\* both values of AllowLiveFetch: the robots gate is not consulted, no
\* robots.txt is requested, Wait is called, and once Wait has handed out the
\* token the GET is made; the call returns without a GET only when Wait failed.
C3_InternalNeverPolicyBlocked ==
    (pc # "idle" /\ Internal) =>
        /\ net.gate = 0
        /\ net.robots = 0
        /\ ~gate.called
        /\ net.waits = 1
        /\ ret.err \notin {"invalid_url", "live_fetch_disabled",
                           "robots_check_failed", "robots_disallow"}
        /\ (net.tokens = 1 => pc = "attempt" \/ outcomes.tries >= 1)
        /\ (ret.done /\ outcomes.tries = 0 => ret.err = "rate_limit_wait")

C3_Witness ==
    /\ Internal
    /\ ~cfg.AllowLiveFetch
    /\ Contains(LowerHost(url.host), "localhost")
    /\ ret.done
    /\ ret.err = ""
    /\ ret.status = 200

\* C4: for an external URL with live fetch enabled, when the gate answers
\* disallow or fails, Get has returned an error at once: Wait was never
\* called, no token taken, no GET made, nothing retried, and the one audit
\* entry has robots_allowed = false, status 0 and retry count 0.
C4_GateRejectionIsImmediate ==
    (gate.called /\ (gate.err \/ ~gate.allowed)) =>
        /\ pc = "done"
        /\ ret.done
        /\ ret.err \in {"robots_check_failed", "robots_disallow"}
        /\ net.gate = 1
        /\ net.waits = 0
        /\ net.tokens = 0
        /\ net.gets = 0
        /\ outcomes.tries = 0
        /\ AuditsOfCall = 1
        /\ ~LastAudit.robotsAllowed
        /\ LastAudit.status = 0
        /\ LastAudit.retryCount = 0

C4_Witness ==
    /\ External
    /\ cfg.AllowLiveFetch
    /\ gate.called
    /\ ~gate.err
    /\ ~gate.allowed
    /\ ret.err = "robots_disallow"

\* C5: when every attempt was answered 429 and the retries are used up, Get
\* returns a non-nil error (carrying the last status) and not a response.
C5_RetriesExhaustedOn429 ==
    (ret.done /\ outcomes.only429 /\ outcomes.tries = cfg.HTTPMaxRetries + 1) =>
        ret.err # ""

\* at most HTTPMaxRetries + 1 attempts; a response that is neither 429 nor
\* 5xx ends the call with that response
C6_AttemptsBounded ==
    /\ outcomes.tries <= cfg.HTTPMaxRetries + 1
    /\ (outcomes.last.kind = "resp" /\ ~Transient(outcomes.last)) =>
           /\ pc = "done"
           /\ ret.err = ""
           /\ ret.status = outcomes.last.status

\* an attempt after the first follows a transient outcome, with retries left
C6_RetryOnlyAfterTransient ==
    (outcomes'.tries = outcomes.tries + 1 /\ outcomes.tries >= 1) =>
        /\ Transient(outcomes.last)
        /\ outcomes.tries - 1 < cfg.HTTPMaxRetries

\* C6: a further attempt is made only after a transient outcome and only
\* while fewer than HTTPMaxRetries retries were made, so a call makes at most
\* HTTPMaxRetries + 1 attempts; a response that is not 429 or 5xx is returned
\* after that attempt; and every call that started returns.
C6_BoundedRetries ==
    /\ []C6_AttemptsBounded
    /\ [][C6_RetryOnlyAfterTransient]_vars
    /\ (pc # "idle") ~> (pc = "done")

C6_Witness ==
    /\ ret.done
    /\ cfg.HTTPMaxRetries = 2
    /\ outcomes.tries = 3
    /\ outcomes.last.status = 404

\* C7: the backoffs of successive attempts are non-decreasing, for every
\* attempt index and every jitter.
C7_BackoffNonDecreasing == boAttempt >= 2 => I64Geq(boCur, boPrev)

\* C8: once the context is cancelled while the caller is blocked in Wait or
\* sleeping in a backoff, its next step returns the cancellation error: no
\* further attempt is made, no GET sent, no token taken.
C8_CancelAbortsWaits ==
    [][ (ctxCancelled /\ pc \in {"wait", "backoff"}) =>
            /\ pc' \in {pc, "done"}
            /\ net'.gets = net.gets
            /\ net'.tokens = net.tokens
            /\ outcomes'.tries = outcomes.tries
            /\ (pc' = "done" => /\ ret'.done
                                /\ ret'.err # ""
                                /\ ret'.cause = "ctx") ]_vars

C8_Witness ==
    /\ ret.done
    /\ ret.err = "ctx"
    /\ ctxCancelled
    /\ outcomes.tries >= 1
    /\ outcomes.tries <= cfg.HTTPMaxRetries

\* C9: whenever robots.txt could not be fetched or could not be parsed,
\* CanFetch answers allowed = false with a non-nil error.
C9_FailClosed ==
    (gate.called /\ (gate.fetchFailed \/ gate.malformed)) =>
        /\ ~gate.allowed
        /\ gate.err

\* C10: within a group Allow is checked first and wins: a path matched by an
\* Allow pattern is allowed even when a Disallow pattern matches it; a path
\* matched by a Disallow pattern and by no Allow pattern is denied; a path
\* matched by neither is allowed.  With Disallow: /admin/ and
\* Allow: /admin/public/, /admin/public/x is allowed and /admin/secret denied.
C10_AllowWins ==
    rbOut.done =>
        /\ rbOut.group = rbRule.UserAgent
        /\ (AnyMatch(rbPath, rbRule.Allow) => rbOut.allowed)
        /\ (AnyMatch(rbPath, rbRule.Disallow) /\ ~AnyMatch(rbPath, rbRule.Allow)
               => ~rbOut.allowed)
        /\ (~AnyMatch(rbPath, rbRule.Disallow) /\ ~AnyMatch(rbPath, rbRule.Allow)
               => rbOut.allowed)
        /\ (/\ rbRule.Disallow = << <<"/", "admin", "/">> >>
            /\ rbRule.Allow = << <<"/", "admin", "/", "public", "/">> >>)
           => /\ rbPath = <<"/", "admin", "/", "public", "/", "x">> => rbOut.allowed
              /\ rbPath = <<"/", "admin", "/", "secret">> => ~rbOut.allowed

C10_Witness ==
    /\ rbOut.done
    /\ rbRule.Disallow = << <<"/", "admin", "/">> >>
    /\ rbRule.Allow = << <<"/", "admin", "/", "public", "/">> >>
    /\ rbPath = <<"/", "admin", "/", "public", "/", "x">>
    /\ AnyMatch(rbPath, rbRule.Disallow)
    /\ rbOut.allowed

ExactGroups == {i \in DOMAIN gsRules : gsRules[i].UserAgent = gsAgent}

WildcardGroups == {i \in DOMAIN gsRules : gsRules[i].UserAgent = <<"*">>}

GroupAllows(i) == checkPathAgainstRule(gsPath, gsRules[i]).allowed

\* C11: when groups for the caller's user agent exist, they alone decide (the
\* path is allowed exactly when one of them allows it) and the wildcard group
\* is ignored; otherwise the wildcard group (the last one of the file)
\* decides; with neither, the path is allowed with an empty matched group.
C11_GroupSelection ==
    gsOut.done =>
        IF ExactGroups # {}
        THEN /\ gsOut.allowed <=> \E i \in ExactGroups : GroupAllows(i)
             /\ gsOut.group = gsAgent
        ELSE IF WildcardGroups # {}
        THEN LET w == CHOOSE i \in WildcardGroups : \A j \in WildcardGroups : j <= i
             IN  /\ gsOut.allowed <=> GroupAllows(w)
                 /\ gsOut.group = <<"*">>
        ELSE /\ gsOut.allowed
             /\ gsOut.group = <<>>

\* the wildcard group disallows the path and is ignored: the exact group allows it
C11_Witness ==
    /\ gsOut.done
    /\ ExactGroups # {}
    /\ \E i \in WildcardGroups : ~GroupAllows(i)
    /\ gsOut.allowed
    /\ gsOut.group = gsAgent

\* C12: pathMatches(path, pattern) is true exactly when the pattern is not
\* empty and is a prefix of the path, and moreover the path equals the
\* pattern, or the pattern ends in "/", or the path starts with the pattern
\* followed by "/"; the empty pattern matches no path.
C12_PathMatches ==
    pmOut.done =>
        /\ pmOut.matched <=>
               /\ pmPattern # <<>>
               /\ HasPrefix(pmPath, pmPattern)
               /\ \/ pmPath = pmPattern
                  \/ HasSuffix(pmPattern, <<"/">>)
                  \/ HasPrefix(pmPath, pmPattern \o <<"/">>)
        /\ (pmPattern = <<>> => ~pmOut.matched)

C12_Witness ==
    /\ pmOut.done
    /\ pmPattern = <<"/", "admin", "/">>
    /\ pmPath = <<"/", "admin", "/">> \o <<"x">>
    /\ pmOut.matched

\* The statement of C12 as written, without the prefix condition: true exactly
\* when the path equals the pattern, or the pattern ends in "/", or the path
\* starts with the pattern followed by "/" (the pattern not being empty).
C12_AsWritten ==
    pmOut.done =>
        (pmOut.matched <=>
            /\ pmPattern # <<>>
            /\ \/ pmPath = pmPattern
               \/ HasSuffix(pmPattern, <<"/">>)
               \/ HasPrefix(pmPath, pmPattern \o <<"/">>))

\* C13: once robots.txt of an origin was fetched, a CanFetch for that origin
\* made before the TTL has run out is answered from the cache, the persistent
\* tier first and else the memory tier, with no network request and the caches
\* left as they were; a CanFetch made once the TTL has run out requests
\* robots.txt again and, when that fetch succeeds, stores the new content in
\* both tiers with a new expiry.
C13_CacheTTL ==
    (ccLast.called /\ ccLast.prior.has) =>
        LET k       == ccLast.key
            fresh   == ccLast.at < ccLast.prior.at + CacheTTL
            entry   == [has |-> TRUE, content |-> ccLast.served,
                        expiresAt |-> ccLast.at + CacheTTL]
        IN  IF fresh
            THEN /\ ccLast.requests = 0
                 /\ ~ccLast.err
                 /\ ccLast.tier = IF ccHasCache /\ ccLast.prior.content # <<>>
                                  THEN "persistent" ELSE "memory"
                 /\ ccFetched[k] = ccLast.prior
                 /\ ccMem[k].content = ccLast.prior.content
            ELSE /\ ccLast.requests >= 1
                 /\ ccLast.tier = "network"
                 /\ ~ccLast.err =>
                        /\ ccMem[k] = entry
                        /\ ccHasCache => ccRedis[k] = entry
                        /\ ccFetched[k] = [has |-> TRUE, at |-> ccLast.at,
                                            content |-> ccLast.served]

\* an expired entry was replaced by newly fetched, different content
C13_Witness ==
    /\ ccLast.called
    /\ ccHasCache
    /\ ccLast.prior.has
    /\ ccLast.at >= ccLast.prior.at + CacheTTL
    /\ ~ccLast.err
    /\ ccLast.served # ccLast.prior.content
    /\ ccRedis[ccLast.key].content = ccLast.served

InGetLimiter == {"rlock", "read", "runlock", "lock", "check", "unlock"}

C14_OneLimiterPerKey ==
    /\ \A k \in ManagerKeys : mgCreated[k] <= 1
    /\ \A p \in Callers :
          mgPc[p] \in {"wait", "done"} =>
              /\ mgLocal[p] # NoInstance
              /\ mgLocal[p] = mgLimiters[mgKey[p]]
    /\ \A p, q \in Callers :
          (mgPc[p] \in {"wait", "done"} /\ mgPc[q] \in {"wait", "done"}
              /\ mgKey[p] = mgKey[q]) => mgLocal[p] = mgLocal[q]

C14_EntryKept ==
    \A k \in ManagerKeys :
        mgLimiters[k] # NoInstance => mgLimiters'[k] = mgLimiters[k]

\* C14: in every interleaving of concurrent Wait / getLimiter calls at most
\* one limiter is ever made per key, all callers of a key obtain the same
\* instance, and an entry of the limiters map, once made, is never replaced
\* or removed.
C14_SingleLimiter == []C14_OneLimiterPerKey /\ [][C14_EntryKept]_vars

\* two callers raced for the same absent key and both came out with the one
\* limiter, the second through the double-check
C14_Witness ==
    \E p, q \in Callers :
        /\ p # q
        /\ mgKey[p] = mgKey[q]
        /\ mgPc[p] = "done"
        /\ mgPc[q] = "unlock"
        /\ mgCreated[mgKey[p]] = 1
        /\ mgLocal[q] = mgLocal[p]

Suspended(p) == mgPc[p] = "wait" /\ mgTokens[mgLocal[p]] = 0

C15_NoLockHeld ==
    \A p \in Callers :
        mgPc[p] \in {"wait", "done", "idle"} => p \notin mgReaders /\ mgWriter # p

\* C15: a caller blocked in limiter.Wait holds neither the read nor the
\* write lock of the manager, so every other caller that entered getLimiter,
\* for any key and whether or not the key's limiter exists, gets through it,
\* however long the blocked caller stays suspended.
C15_WaitHoldsNoLock ==
    /\ []C15_NoLockHeld
    /\ \A q \in Callers : (mgPc[q] \in InGetLimiter) ~> (mgPc[q] \in {"wait", "done"})

\* while p is suspended on its key, q has made the limiter of another key
\* and taken a token from it
C15_Witness ==
    \E p, q \in Callers :
        /\ Suspended(p)
        /\ mgKey[q] # mgKey[p]
        /\ mgPc[q] = "done"
        /\ mgLocal[q] > mgLocal[p]

\* the first i Wait calls were issued back to back on the fresh limiter, each
\* with a live context
BackToBack(i) ==
    \A j \in 1..i : tbCalls[j].issued = tbCalls[1].issued /\ ~tbCalls[j].err

\* C16: on a fresh limiter with rate r and burst b, the first b Wait calls
\* return without waiting, and the (b+1)-th call issued immediately after
\* them is due exactly one refill interval (1/r) later and does not return
\* before that; for r = 10, b = 2 the third call is delayed by 100 ms
\* (two ticks of 50 ms).
C16_TokenBucket ==
    \A i \in 1..Len(tbCalls) :
        BackToBack(i) =>
            /\ (i <= tbCfg.Burst) =>
                   tbCalls[i].done /\ tbCalls[i].at = tbCalls[i].issued
            /\ (i = tbCfg.Burst + 1) =>
                   /\ tbCalls[i].due = tbCalls[i].issued + Interval(tbCfg.RPS)
                   /\ tbCalls[i].done => tbCalls[i].at >= tbCalls[i].due
            /\ (i = 3 /\ tbCfg = [RPS |-> 10, Burst |-> 2]) =>
                   tbCalls[i].due - tbCalls[i].issued = 2

C16_Witness ==
    /\ tbCfg = [RPS |-> 10, Burst |-> 2]
    /\ Len(tbCalls) = 3
    /\ BackToBack(3)
    /\ tbCalls[3].done
    /\ tbCalls[3].at = tbCalls[3].issued + 2

C18_NoFalseMerge ==
    \A a \in prResolved : \A b \in prResolved :
        (/\ HasIdentifier(a)
         /\ HasIdentifier(b)
         /\ getIdentifierType(a.source) = getIdentifierType(b.source)
         /\ a.Identifier # b.Identifier)
        => a.product # b.product

\* C19: on a match, a field of the Product (brand, model, image) changes only
\* when the candidate's value for it is non-empty, and a field that once
\* held a non-empty value is never null or empty afterwards.
C19_PatchOnlyNonEmpty ==
    /\ \A r \in prPatched : NonEmpty(r.value)
    /\ \A i \in 1..Len(prProducts) : \A f \in prHad[i] : NonEmpty(prProducts[i][f])

\* C20: when a fetch cycle for (product, source) completes, the offers
\* stored for that pair are exactly the offers the cycle returned.
C20_FullReplace ==
    prLast.done => prLast.stored = prLast.returned

\* the same for a cycle that no other cycle of the same pair overlapped
FullReplaceAlone ==
    (prLast.done /\ ~prLast.overlapped) => prLast.stored = prLast.returned

\* the key the claim speaks of: (product, source, seller, url-or-empty)
OfferKeyOf(o) == <<o.product, o.source, o.seller, IF o.url = Nil THEN "" ELSE o.url[1]>>

SameKey(rows, o) == {r \in rows : OfferKeyOf(r) = OfferKeyOf(o)}

\* C21: after any sequence of Upsert calls there is at most one row per key
\* (product, source, seller, url-or-empty); an upsert on an existing key
\* updates that row in place (same id, new values) and leaves the row count
\* unchanged, an upsert on a new key inserts exactly one row, and the rows of
\* other keys are untouched.
C21_UpsertByKey ==
    /\ \A r1 \in ofRows : \A r2 \in ofRows : OfferKeyOf(r1) = OfferKeyOf(r2) => r1 = r2
    /\ ofCall.called =>
         LET o == ofCall.offer
         IN  /\ ofRows \ SameKey(ofRows, o) = ofCall.before \ SameKey(ofCall.before, o)
             /\ Cardinality(SameKey(ofRows, o)) = 1
             /\ \A r \in SameKey(ofRows, o) : r.price = o.price /\ r.id = ofCall.returned
             /\ IF SameKey(ofCall.before, o) # {}
                THEN /\ Cardinality(ofRows) = Cardinality(ofCall.before)
                     /\ {r.id : r \in SameKey(ofRows, o)}
                          = {r.id : r \in SameKey(ofCall.before, o)}
                ELSE Cardinality(ofRows) = Cardinality(ofCall.before) + 1

C21_Witness ==
    /\ ofCall.called
    /\ ofCall.offer.url = <<"">>
    /\ \E r \in ofCall.before : OfferKeyOf(r) = OfferKeyOf(ofCall.offer) /\ r.url = Nil
    /\ Cardinality(ofRows) = 2

\* C22: CalculateTotal(p) = p + CalculateShipping(p) for every non-negative
\* price p, and an offer persisted by a fetch cycle has shipping =
\* CalculateShipping(price) and total = price + shipping, whatever shipping
\* and total the provider reported.
C22_TotalIsPricePlusShipping ==
    /\ \A x \in Prices :
         CalculateTotal(shCfg, shShipUp, x) = x + CalculateShipping(shCfg, shShipUp, x)
    /\ shRow.done =>
         /\ shRow.price = shRow.reported.price
         /\ shRow.shipping = CalculateShipping(shCfg, shShipUp, shRow.price)
         /\ shRow.total = shRow.price + shRow.shipping

C22_Witness ==
    /\ shRow.done
    /\ shRow.price = 4999
    /\ shRow.reported.shipping # shRow.shipping
    /\ shRow.reported.total # shRow.total

\* the base the claim names for a price in cents
BracketBase(x) ==
    CASE x < 2000 -> 999
      [] x >= 2000 /\ x < 5000 -> 1499
      [] x >= 5000 -> 1999

C24_ConvertToJPY ==
    (shJPY.done /\ shCfg.FXUSDJPY = 150) =>
        /\ shJPY.jpy = shJPY.cents * shCfg.FXUSDJPY
        /\ shJPY.cents = 100 => shJPY.jpy = 15000
        /\ shJPY.cents = 1000 => shJPY.jpy = 150000

\* C25: a failed candidate stops nothing: the loop it is in still handles
\* every candidate it was due to handle (all that Search returned, or as
\* many as the cap), a source that returned without a cancelled context
\* ran every one of its queries, every source of the job is walked, and
\* HandleFetchPrices returns nil for a well-formed payload, also when a
\* source is not registered or a Search failed.
C25_FailureIsolation ==
    /\ jbLast.processed = jbLast.returned \/ jbLast.processed = maxProducts
    /\ \A i \in 1..Len(jbRuns) :
         (jbRuns[i].found /\ ~jbRuns[i].err) =>
            jbRuns[i].searched = Len(Queries(jbRuns[i].source))
    /\ \A i \in 1..Len(jbRuns) :
         (jbRuns[i].err /\ ~jbCtxDone) => jbRuns[i].source = "public_html"
    /\ (jbPc = "done" /\ jbPayload.ok) =>
         /\ jbRet = "nil"
         /\ Len(jbRuns) = Len(jbSources)

C25_Witness ==
    /\ jbPc = "done"
    /\ jbRet = "nil"
    /\ ~jbCtxDone
    /\ Len(jbRuns) = 2
    /\ jbRuns[1].err
    /\ jbRuns[2].source = "demo"
    /\ jbRuns[2].searched = 3
    /\ jbLast.source = "demo"
    /\ jbLast.failAt = 1
    /\ jbLast.processed = MaxReturned

\* C26: for every provider the number of candidates processed per query is
\* at most 5, however many Search returned.
C26_CappedAtFive == jbLast.processed <= 5

\* C27: a call of Get calls the limiter's Wait at most once and takes at
\* most one token, and does so before its first attempt: a call that has
\* made k >= 1 attempts, retries after a backoff included, has called Wait
\* once and holds one token, not k.
C27_OneTokenPerCall ==
    /\ net.waits <= 1
    /\ net.tokens <= net.waits
    /\ (pc = "attempt" \/ pc = "backoff" \/ outcomes.tries >= 1) =>
          (net.waits = 1 /\ net.tokens = 1)

C27_Witness ==
    /\ pc = "done"
    /\ outcomes.tries = 3
    /\ retryCount = 2
    /\ net.waits = 1
    /\ net.tokens = 1

\* C28: when FetchOffers fails for a candidate's (product, source) pair,
\* the offers stored for the pair when the cycle began are still stored
\* when processCandidate returns (no other worker touching the pair).
C28_FailedFetchKeepsOffers ==
    (prFailed.done /\ ~prFailed.overlapped) => prFailed.after = prFailed.before

\* C29: after processCandidate succeeded for a candidate with a non-empty
\* identifier, storage holds the mapping of its (type, value) to the
\* product it resolved to, by whichever path it was resolved (looked at
\* when no worker is in the middle of a candidate).
C29_MappingPersisted ==
    (/\ prLast.done
     /\ \A w \in Workers : prPc[w] = "idle"
     /\ HasIdentifier([source |-> prLast.source, Identifier |-> prLast.identifier])) =>
        \E r \in prIdents :
            /\ r.type = getIdentifierType(prLast.source)
            /\ r.value = prLast.identifier[1]
            /\ r.product = prLast.product

\* C30: workers processing the same unseen candidate at once create one
\* Product for it: no two products carry the same title, and no candidate
\* is resolved to two products.
C30_OneProductPerCandidate ==
    /\ \A i, j \in DOMAIN prProducts :
          prProducts[i].title = prProducts[j].title => i = j
    /\ \A a, b \in prResolved :
          (a.source = b.source /\ a.Identifier = b.Identifier /\ a.Title = b.Title)
              => a.product = b.product

====
